---- MODULE Spec2Model ----
(***************************************************************************)
(* Model of the label container (labels.db) code of A3D-Manager.           *)
(*                                                                         *)
(* The container on disk is a byte sequence.  server/lib/labels-db.ts      *)
(* reads the whole file, parses a fixed-size ID table, and writes the      *)
(* whole file back; those functions are modelled byte for byte below.      *)
(* The buffer functions of the labels.db library (createEmptyLabelsDb,     *)
(* verifyHeader, parseLabelsDb with the fill stop, addEntry, updateEntry,  *)
(* deleteEntry and the colour conversions) are modelled from the library   *)
(* text, which tests/labels-db/tests.ts exercises.                         *)
(*                                                                         *)
(* Sizes are scaled: the image is IMAGE_WIDTH x IMAGE_HEIGHT pixels, the   *)
(* slot padding is SLOT_PADDING bytes and the ID table the parser reads    *)
(* has ID_COUNT entries (74, 86, 144 and 901 in the program); the header   *)
(* keeps its field offsets and is cut after ReservedBytes reserved bytes.  *)
(* A 32-bit cartridge id is the pair [hi, lo] of its 16-bit halves.        *)
(***************************************************************************)
EXTENDS Integers, Sequences, FiniteSets, TLC

\* file, op, hist: one labels.db and the calls made on it.
\* run: an export of the local labels to the SD card.
\* app: the sync page and the apply requests it has made.
\* games: a games directory and the operation working on it.
\* rom: the ROM file handed to the identity script.
VARIABLES file, op, hist, run, app, games, rom

vars == <<file, op, hist, run, app, games, rom>>

\* The parts of the state an operation on something else leaves alone.
NoRun == [pc |-> "none"]
NoApp == [pc |-> "none"]
NoGames == [pc |-> "none"]
NoRom == [pc |-> "none"]

(***************************************************************************)
(* Bounds                                                                  *)
(***************************************************************************)
ID_COUNT == 2
IMAGE_WIDTH == 1
IMAGE_HEIGHT == 1
SLOT_PADDING == 2
NumImages == 2
ExtraSlots == 1
ReservedBytes == 4

(***************************************************************************)
(* Program constants                                                       *)
(***************************************************************************)
BYTES_PER_PIXEL == 4
MAGIC_BYTE == 7
PADDING_FILL == 255
FILE_TYPE_OFFSET == 32
VERSION_OFFSET == 64

\* The header ends with reserved zero bytes after the version field (0x44
\* to 0xFF in the program); the ID table follows it.
HEADER_SIZE == VERSION_OFFSET + 4 + ReservedBytes
ID_TABLE_START == HEADER_SIZE

\* The table region is larger than the ID_COUNT + 1 entries addCartridge
\* writes (0x4000 bytes against 902 * 4 in the program).
DATA_START == ID_TABLE_START + (ID_COUNT + 2) * 4
IMAGE_DATA_SIZE == IMAGE_WIDTH * IMAGE_HEIGHT * BYTES_PER_PIXEL
IMAGE_SLOT_SIZE == IMAGE_DATA_SIZE + SLOT_PADDING
MaxSlots == ID_COUNT + ExtraSlots

\* "Analogue-Co"
IDENTIFIER == <<65, 110, 97, 108, 111, 103, 117, 101, 45, 67, 111>>
\* "Analogue-3D.labels"
FILE_TYPE == <<65, 110, 97, 108, 111, 103, 117, 101, 45, 51, 68, 46, 108, 97, 98, 101, 108, 115>>
\* "Analogue-3D.library"
LIBRARY_FILE_TYPE == <<65, 110, 97, 108, 111, 103, 117, 101, 45, 51, 68, 46, 108, 105, 98, 114, 97, 114, 121>>
\* 0x00020000, little-endian
VERSION_BYTES == <<0, 0, 2, 0>>

(***************************************************************************)
(* 32-bit values and buffers                                               *)
(***************************************************************************)
U32(h, l) == [hi |-> h, lo |-> l]
FILL_ID == U32(65535, 65535)
NoId == U32(0, 0)

Gt(a, b) == a.hi > b.hi \/ (a.hi = b.hi /\ a.lo > b.lo)

\* data[off] of a Node Buffer: undefined past the end, which a Buffer
\* element assignment stores as 0.
ByteAt(data, off) == IF off >= 0 /\ off < Len(data) THEN data[off + 1] ELSE 0

\* data.subarray(from, to): clamped to the buffer.
Subarray(data, from, to) ==
  LET e == IF to > Len(data) THEN Len(data) ELSE to
  IN  IF from >= e THEN <<>> ELSE [i \in 1..(e - from) |-> data[from + i]]

RangeError == [err |-> "RangeError"]

readUInt32LE(data, off) ==
  IF off + 4 > Len(data) THEN RangeError
  ELSE U32(data[off + 4] * 256 + data[off + 3], data[off + 2] * 256 + data[off + 1])

\* The four bytes writeUInt32LE stores, lowest first.
UInt32LEBytes(v) == <<v.lo % 256, v.lo \div 256, v.hi % 256, v.hi \div 256>>

(***************************************************************************)
(* Colour order: BGRA in the file, RGBA outside                            *)
(***************************************************************************)
\* A missing source byte (rawData shorter than the image) reads as
\* undefined and is stored as 0.
Px(raw, p, c) == IF p * 4 + c < Len(raw) THEN raw[p * 4 + c + 1] ELSE 0

\* getLabelImage, "Convert BGRA to RGBA"
bgraToRgba(rawData) ==
  [k \in 1..IMAGE_DATA_SIZE |->
     LET p == (k - 1) \div 4
         c == (k - 1) % 4
     IN  CASE c = 0 -> Px(rawData, p, 2)
           [] c = 1 -> Px(rawData, p, 1)
           [] c = 2 -> Px(rawData, p, 0)
           [] c = 3 -> Px(rawData, p, 3)]

\* updateLabelImage / addCartridge, "Convert RGBA to BGRA"
rgbaToBgra(rawRgba) ==
  [k \in 1..IMAGE_DATA_SIZE |->
     LET p == (k - 1) \div 4
         c == (k - 1) % 4
     IN  CASE c = 0 -> Px(rawRgba, p, 2)
           [] c = 1 -> Px(rawRgba, p, 1)
           [] c = 2 -> Px(rawRgba, p, 0)
           [] c = 3 -> Px(rawRgba, p, 3)]

(***************************************************************************)
(* Inputs                                                                  *)
(***************************************************************************)
IdOf(k) == U32((k * 9733) % 65536, (k * 4321 + 7) % 65536)
CartIds == {IdOf(k) : k \in 1..(ID_COUNT + 1)}

\* Decoded RGBA pixels of the uploaded pictures; every byte of a picture is
\* different so that a channel swap or a shifted slot shows.
ImageOf(n) == [k \in 1..IMAGE_DATA_SIZE |-> (n * 40 + k) % 251]
Images == {ImageOf(n) : n \in 1..NumImages}
\* An upload the image library cannot decode.
BadImage == <<>>
ImageInputs == Images \cup {BadImage}

\* sharp(...).resize(W, H).ensureAlpha().raw().toBuffer()
sharpRaw(imageBuffer) ==
  IF imageBuffer = BadImage THEN [err |-> "ImageError"] ELSE [raw |-> imageBuffer]

(***************************************************************************)
(* server/lib/labels-db.ts                                                 *)
(***************************************************************************)
\* Header test of parseLabelsDb: magic byte and the 11 identifier bytes.
HeaderAccepted(data) ==
  /\ Len(data) >= 1
  /\ data[1] = MAGIC_BYTE
  /\ Subarray(data, 1, 12) = IDENTIFIER

\* parseLabelsDb: always ID_COUNT table entries, whatever they hold and
\* however long the file is (readUInt32LE throws past the end).
parseLabelsDb(data) ==
  IF ~HeaderAccepted(data) THEN [err |-> "InvalidHeader", entries |-> <<>>]
  ELSE IF ID_TABLE_START + ID_COUNT * 4 > Len(data)
       THEN [err |-> "RangeError", entries |-> <<>>]
  ELSE [err |-> "",
        entries |-> [i \in 1..ID_COUNT |->
                       [cartId |-> readUInt32LE(data, ID_TABLE_START + (i - 1) * 4),
                        index |-> i - 1,
                        imageOffset |-> DATA_START + (i - 1) * IMAGE_SLOT_SIZE]]]

\* db.idToIndex.has(cartId)
IdToIndexHas(db, cartId) == \E i \in 1..Len(db.entries) : db.entries[i].cartId = cartId

\* db.idToIndex.get(cartId): Map.set overwrites, the last table position wins.
IdToIndexGet(db, cartId) ==
  LET hits == {i \in 1..Len(db.entries) : db.entries[i].cartId = cartId}
  IN  db.entries[CHOOSE i \in hits : \A j \in hits : j <= i].index

\* getLabelImage: the RGBA pixels that are handed to the PNG encoder.
getLabelImage(data, cartId) ==
  LET db == parseLabelsDb(data)
  IN  IF db.err # "" THEN [err |-> db.err, found |-> FALSE, rgba |-> <<>>]
      ELSE IF ~IdToIndexHas(db, cartId) THEN [err |-> "", found |-> FALSE, rgba |-> <<>>]
      ELSE LET imageOffset == DATA_START + IdToIndexGet(db, cartId) * IMAGE_SLOT_SIZE
               rawData == Subarray(data, imageOffset, imageOffset + IMAGE_DATA_SIZE)
           IN  [err |-> "", found |-> TRUE, rgba |-> bgraToRgba(rawData)]

\* bgraData.copy(data, targetStart): bytes that do not fit are dropped.
CopyInto(data, src, targetStart) ==
  [k \in 1..Len(data) |->
     IF k - 1 >= targetStart /\ k - 1 - targetStart < Len(src)
     THEN src[k - targetStart] ELSE data[k]]

\* updateLabelImage with the slot offset taken from the image size instead
\* of the slot size.
updateLabelImage_DataSizeStride(data, cartId, imageBuffer) ==
  LET db == parseLabelsDb(data)
      dec == sharpRaw(imageBuffer)
  IN  IF db.err # "" THEN [res |-> db.err, out |-> data]
      ELSE IF ~IdToIndexHas(db, cartId) THEN [res |-> "NotFound", out |-> data]
      ELSE IF "err" \in DOMAIN dec THEN [res |-> dec.err, out |-> data]
      ELSE IF Len(dec.raw) # IMAGE_DATA_SIZE THEN [res |-> "SizeMismatch", out |-> data]
      ELSE LET imageOffset == DATA_START + IdToIndexGet(db, cartId) * IMAGE_DATA_SIZE
           IN  [res |-> "ok", out |-> CopyInto(data, rgbaToBgra(dec.raw), imageOffset)]

\* updateLabelImage: the result and the bytes written back (out = data when
\* nothing is written).
updateLabelImage(data, cartId, imageBuffer) ==
  LET db == parseLabelsDb(data)
      dec == sharpRaw(imageBuffer)
  IN  IF db.err # "" THEN [res |-> db.err, out |-> data]
      ELSE IF ~IdToIndexHas(db, cartId) THEN [res |-> "NotFound", out |-> data]
      ELSE IF "err" \in DOMAIN dec THEN [res |-> dec.err, out |-> data]
      ELSE IF Len(dec.raw) # IMAGE_DATA_SIZE THEN [res |-> "SizeMismatch", out |-> data]
      ELSE LET imageOffset == DATA_START + IdToIndexGet(db, cartId) * IMAGE_SLOT_SIZE
           IN  [res |-> "ok", out |-> CopyInto(data, rgbaToBgra(dec.raw), imageOffset)]

\* Insertion point of addCartridge: one past the last entry, in table order
\* before the first greater one, that is not greater than cartId.
RECURSIVE InsertScan(_, _, _)
InsertScan(entries, cartId, i) ==
  IF i > Len(entries) THEN Len(entries)
  ELSE IF Gt(entries[i].cartId, cartId) THEN i - 1
  ELSE InsertScan(entries, cartId, i + 1)

InsertIndex(entries, cartId) == InsertScan(entries, cartId, 1)

\* data.copy(newData, newOffset, oldOffset, oldOffset + IMAGE_SLOT_SIZE)
\* throws ERR_OUT_OF_RANGE when oldOffset lies past the end of data; the
\* loops of addCartridge visit every i in 0..entries.length-1.
SlotCopyThrows(data, count) ==
  \E i \in 0..(count - 1) : DATA_START + i * IMAGE_SLOT_SIZE > Len(data)

\* The buffer addCartridge builds: zero-filled, one slot longer than data.
NewData(data, entries, cartId, insertIndex, bgraData) ==
  LET n == Len(entries)
      tableEnd == ID_TABLE_START + (ID_COUNT + 1) * 4
      TableId(j) == IF j < insertIndex THEN entries[j + 1].cartId
                    ELSE IF j = insertIndex THEN cartId
                    ELSE IF j <= n THEN entries[j].cartId
                    ELSE NoId
  IN  [k \in 1..(Len(data) + IMAGE_SLOT_SIZE) |->
         LET off == k - 1
         IN  IF off < ID_TABLE_START THEN ByteAt(data, off)
             ELSE IF off < ID_TABLE_START + (n + 1) * 4
                  THEN UInt32LEBytes(TableId((off - ID_TABLE_START) \div 4))[((off - ID_TABLE_START) % 4) + 1]
             ELSE IF off < tableEnd THEN 0
             ELSE IF off < DATA_START THEN 255
             ELSE LET j == (off - DATA_START) \div IMAGE_SLOT_SIZE
                      r == (off - DATA_START) % IMAGE_SLOT_SIZE
                  IN  IF j < insertIndex
                      THEN ByteAt(data, DATA_START + j * IMAGE_SLOT_SIZE + r)
                      ELSE IF j = insertIndex
                      THEN (IF r < IMAGE_DATA_SIZE THEN bgraData[r + 1] ELSE 0)
                      ELSE IF j <= n
                      THEN ByteAt(data, DATA_START + (j - 1) * IMAGE_SLOT_SIZE + r)
                      ELSE 0]

\* addCartridge without the "already exists" test.
addCartridge_NoExistsCheck(data, cartId, imageBuffer) ==
  LET db == parseLabelsDb(data)
      dec == sharpRaw(imageBuffer)
  IN  IF db.err # "" THEN [res |-> db.err, out |-> data]
      ELSE IF "err" \in DOMAIN dec THEN [res |-> dec.err, out |-> data]
      ELSE IF SlotCopyThrows(data, Len(db.entries)) THEN [res |-> "RangeError", out |-> data]
      ELSE [res |-> "ok",
            out |-> NewData(data, db.entries, cartId,
                            InsertIndex(db.entries, cartId), rgbaToBgra(dec.raw))]

\* addCartridge: the result and the bytes written back.
addCartridge(data, cartId, imageBuffer) ==
  LET db == parseLabelsDb(data)
      dec == sharpRaw(imageBuffer)
  IN  IF db.err # "" THEN [res |-> db.err, out |-> data]
      ELSE IF IdToIndexHas(db, cartId) THEN [res |-> "AlreadyExists", out |-> data]
      ELSE IF "err" \in DOMAIN dec THEN [res |-> dec.err, out |-> data]
      ELSE IF SlotCopyThrows(data, Len(db.entries)) THEN [res |-> "RangeError", out |-> data]
      ELSE [res |-> "ok",
            out |-> NewData(data, db.entries, cartId,
                            InsertIndex(db.entries, cartId), rgbaToBgra(dec.raw))]

(***************************************************************************)
(* The labels.db library (server/lib/labels-db-core.ts): operations on     *)
(* buffers                                                                 *)
(***************************************************************************)
createHeader ==
  [k \in 1..HEADER_SIZE |->
     LET off == k - 1
     IN  IF off = 0 THEN MAGIC_BYTE
         ELSE IF off <= Len(IDENTIFIER) THEN IDENTIFIER[off]
         ELSE IF off >= FILE_TYPE_OFFSET /\ off < FILE_TYPE_OFFSET + Len(FILE_TYPE)
              THEN FILE_TYPE[off - FILE_TYPE_OFFSET + 1]
         ELSE IF off >= VERSION_OFFSET /\ off < VERSION_OFFSET + 4
              THEN VERSION_BYTES[off - VERSION_OFFSET + 1]
         ELSE 0]

createEmptyLabelsDb_ZeroTable ==
  createHeader \o [k \in 1..(DATA_START - HEADER_SIZE) |-> 0]

createEmptyLabelsDb ==
  createHeader \o [k \in 1..(DATA_START - HEADER_SIZE) |-> PADDING_FILL]

verifyHeader(buf) ==
  IF Len(buf) < HEADER_SIZE THEN "TooShort"
  ELSE IF buf[1] # MAGIC_BYTE THEN "BadMagic"
  ELSE IF Subarray(buf, 1, 1 + Len(IDENTIFIER)) # IDENTIFIER THEN "BadIdentifier"
  ELSE IF Subarray(buf, FILE_TYPE_OFFSET, FILE_TYPE_OFFSET + Len(FILE_TYPE)) # FILE_TYPE
       THEN "BadType"
  ELSE ""

\* entryCount = Math.floor((data.length - DATA_START) / IMAGE_SLOT_SIZE)
SlotCount(buf) ==
  IF Len(buf) < DATA_START THEN 0 ELSE (Len(buf) - DATA_START) \div IMAGE_SLOT_SIZE

\* Table entries in order, up to the slot count, stopping at the fill value.
RECURSIVE ReadTable(_, _, _)
ReadTable(buf, i, limit) ==
  IF i >= limit THEN <<>>
  ELSE LET id == readUInt32LE(buf, ID_TABLE_START + i * 4)
       IN  IF id = FILL_ID THEN <<>>
           ELSE <<[cartId |-> id, index |-> i,
                   imageOffset |-> DATA_START + i * IMAGE_SLOT_SIZE]>>
                \o ReadTable(buf, i + 1, limit)

\* parseLabelsDb of the library: header check, then "File too small" for a
\* buffer that ends before the data section.
parseLabelsDbCore(buf) ==
  IF verifyHeader(buf) # "" THEN [err |-> verifyHeader(buf), entries |-> <<>>]
  ELSE IF Len(buf) < DATA_START THEN [err |-> "TooSmall", entries |-> <<>>]
  ELSE [err |-> "", entries |-> ReadTable(buf, 0, SlotCount(buf))]

\* bgraToRgba(bgra): a buffer of the same length; pixelCount is length / 4,
\* so a trailing partial pixel is looped over as well: reads past the end
\* give undefined (stored as 0), writes past the end are dropped.
bgraToRgbaCore(bgra) ==
  [k \in 1..Len(bgra) |->
     LET p == (k - 1) \div BYTES_PER_PIXEL
         c == (k - 1) % BYTES_PER_PIXEL
     IN  CASE c = 0 -> Px(bgra, p, 2)
           [] c = 1 -> Px(bgra, p, 1)
           [] c = 2 -> Px(bgra, p, 0)
           [] c = 3 -> Px(bgra, p, 3)]

\* rgbaToBgra with the stores of channels 0 and 2 left as they are.
rgbaToBgraCore_NoSwap(rgba) ==
  [k \in 1..Len(rgba) |-> Px(rgba, (k - 1) \div BYTES_PER_PIXEL, (k - 1) % BYTES_PER_PIXEL)]

\* rgbaToBgra(rgba)
rgbaToBgraCore(rgba) ==
  [k \in 1..Len(rgba) |->
     LET p == (k - 1) \div BYTES_PER_PIXEL
         c == (k - 1) % BYTES_PER_PIXEL
     IN  CASE c = 0 -> Px(rgba, p, 2)
           [] c = 1 -> Px(rgba, p, 1)
           [] c = 2 -> Px(rgba, p, 0)
           [] c = 3 -> Px(rgba, p, 3)]

\* extractRawImage(data, index)
extractRawImage(data, index) ==
  Subarray(data, DATA_START + index * IMAGE_SLOT_SIZE,
           DATA_START + index * IMAGE_SLOT_SIZE + IMAGE_DATA_SIZE)

\* getImageByCartId / getImageByIndex: the rgba field of the image.
getImageByCartId(buf, cartId) ==
  LET db == parseLabelsDbCore(buf)
  IN  IF db.err # "" THEN [err |-> db.err, found |-> FALSE, rgba |-> <<>>]
      ELSE IF ~IdToIndexHas(db, cartId) THEN [err |-> "", found |-> FALSE, rgba |-> <<>>]
      ELSE [err |-> "", found |-> TRUE,
            rgba |-> bgraToRgbaCore(extractRawImage(buf, IdToIndexGet(db, cartId)))]

\* prepareImageForStorage(imageBuffer): [err] or [bgra]
prepareImageForStorage(imageBuffer) ==
  LET dec == sharpRaw(imageBuffer)
  IN  IF "err" \in DOMAIN dec THEN [err |-> dec.err]
      ELSE IF Len(dec.raw) # IMAGE_DATA_SIZE THEN [err |-> "SizeMismatch"]
      ELSE [bgra |-> rgbaToBgraCore(dec.raw)]

\* createImageSlot(bgraData): Buffer.alloc(IMAGE_SLOT_SIZE, PADDING_FILL)
\* with the pixels copied to its start.
createImageSlot(bgraData) ==
  bgraData \o [k \in 1..SLOT_PADDING |-> PADDING_FILL]

\* Buffer.alloc(size, PADDING_FILL)
AllocFill(size) == [k \in 1..size |-> PADDING_FILL]

\* newData.writeUInt32LE(entries[i].cartId, ID_TABLE_START + (i + shift) * 4)
\* for i = from .. to - 1
RECURSIVE WriteIds(_, _, _, _, _)
WriteIds(newData, entries, i, to, shift) ==
  IF i >= to THEN newData
  ELSE WriteIds(CopyInto(newData, UInt32LEBytes(entries[i + 1].cartId),
                         ID_TABLE_START + (i + shift) * 4),
                entries, i + 1, to, shift)

\* data.copy(newData, DATA_START + (i + shift) * IMAGE_SLOT_SIZE, srcOffset,
\* srcOffset + IMAGE_SLOT_SIZE) for i = from .. to - 1
RECURSIVE CopySlots(_, _, _, _, _)
CopySlots(newData, data, i, to, shift) ==
  IF i >= to THEN newData
  ELSE CopySlots(CopyInto(newData,
                          Subarray(data, DATA_START + i * IMAGE_SLOT_SIZE,
                                   DATA_START + (i + 1) * IMAGE_SLOT_SIZE),
                          DATA_START + (i + shift) * IMAGE_SLOT_SIZE),
                 data, i + 1, to, shift)

\* updateEntry(data, cartId, imageBuffer): a copy of data with the whole
\* slot (pixels and padding) of cartId rewritten.
updateEntry(data, cartId, imageBuffer) ==
  LET db == parseLabelsDbCore(data)
      img == prepareImageForStorage(imageBuffer)
  IN  IF db.err # "" THEN [res |-> db.err, out |-> data]
      ELSE IF ~IdToIndexHas(db, cartId) THEN [res |-> "NotFound", out |-> data]
      ELSE IF "err" \in DOMAIN img THEN [res |-> img.err, out |-> data]
      ELSE [res |-> "ok",
            out |-> CopyInto(data, createImageSlot(img.bgra),
                             DATA_START + IdToIndexGet(db, cartId) * IMAGE_SLOT_SIZE)]

\* addEntry that writes the new id at the end of the table.
addEntry_AppendsId(data, cartId, imageBuffer) ==
  LET db == parseLabelsDbCore(data)
      img == prepareImageForStorage(imageBuffer)
  IN  IF db.err # "" THEN [res |-> db.err, out |-> data]
      ELSE IF IdToIndexHas(db, cartId) THEN [res |-> "AlreadyExists", out |-> data]
      ELSE IF "err" \in DOMAIN img THEN [res |-> img.err, out |-> data]
      ELSE LET n == Len(db.entries)
               insertIndex == InsertIndex(db.entries, cartId)
               a == CopyInto(AllocFill(Len(data) + IMAGE_SLOT_SIZE),
                             Subarray(data, 0, HEADER_SIZE), 0)
               b == WriteIds(a, db.entries, 0, n, 0)
               c == CopyInto(b, UInt32LEBytes(cartId), ID_TABLE_START + n * 4)
               e == CopySlots(c, data, 0, insertIndex, 0)
               f == CopyInto(e, createImageSlot(img.bgra),
                             DATA_START + insertIndex * IMAGE_SLOT_SIZE)
           IN  [res |-> "ok", out |-> CopySlots(f, data, insertIndex, n, 1)]

\* addEntry(data, cartId, imageBuffer): a buffer one slot longer, allocated
\* with the fill byte; header, table with cartId inserted, slots with the
\* new slot inserted.
addEntry(data, cartId, imageBuffer) ==
  LET db == parseLabelsDbCore(data)
      img == prepareImageForStorage(imageBuffer)
  IN  IF db.err # "" THEN [res |-> db.err, out |-> data]
      ELSE IF IdToIndexHas(db, cartId) THEN [res |-> "AlreadyExists", out |-> data]
      ELSE IF "err" \in DOMAIN img THEN [res |-> img.err, out |-> data]
      ELSE LET n == Len(db.entries)
               insertIndex == InsertIndex(db.entries, cartId)
               a == CopyInto(AllocFill(Len(data) + IMAGE_SLOT_SIZE),
                             Subarray(data, 0, HEADER_SIZE), 0)
               b == WriteIds(a, db.entries, 0, insertIndex, 0)
               c == CopyInto(b, UInt32LEBytes(cartId), ID_TABLE_START + insertIndex * 4)
               d == WriteIds(c, db.entries, insertIndex, n, 1)
               e == CopySlots(d, data, 0, insertIndex, 0)
               f == CopyInto(e, createImageSlot(img.bgra),
                             DATA_START + insertIndex * IMAGE_SLOT_SIZE)
           IN  [res |-> "ok", out |-> CopySlots(f, data, insertIndex, n, 1)]

\* deleteEntry that compacts the table but cuts the last image slot.
deleteEntry_CutsLastSlot(buf, cartId) ==
  LET db == parseLabelsDbCore(buf)
  IN  IF db.err # "" THEN [res |-> db.err, out |-> buf]
      ELSE IF ~IdToIndexHas(db, cartId) THEN [res |-> "NotFound", out |-> buf]
      ELSE LET idx == IdToIndexGet(db, cartId)
               n == Len(db.entries)
               table == [k \in 1..(DATA_START - ID_TABLE_START) |->
                           LET j == (k - 1) \div 4
                           IN  IF j < n - 1
                               THEN UInt32LEBytes(db.entries[IF j < idx THEN j + 1 ELSE j + 2].cartId)[((k - 1) % 4) + 1]
                               ELSE PADDING_FILL]
           IN  [res |-> "ok",
                out |-> Subarray(buf, 0, ID_TABLE_START) \o table
                        \o Subarray(buf, DATA_START, Len(buf) - IMAGE_SLOT_SIZE)]

\* deleteEntry(data, cartId): a buffer one slot shorter, allocated with the
\* fill byte; header, table and slots of the parsed entries without the one
\* of cartId.
deleteEntry(buf, cartId) ==
  LET db == parseLabelsDbCore(buf)
  IN  IF db.err # "" THEN [res |-> db.err, out |-> buf]
      ELSE IF ~IdToIndexHas(db, cartId) THEN [res |-> "NotFound", out |-> buf]
      ELSE LET index == IdToIndexGet(db, cartId)
               n == Len(db.entries)
               a == CopyInto(AllocFill(Len(buf) - IMAGE_SLOT_SIZE),
                             Subarray(buf, 0, HEADER_SIZE), 0)
               b == WriteIds(WriteIds(a, db.entries, 0, index, 0),
                             db.entries, index + 1, n, -1)
           IN  [res |-> "ok",
                out |-> CopySlots(CopySlots(b, buf, 0, index, 0), buf, index + 1, n, -1)]

(***************************************************************************)
(* Containers the program starts from                                      *)
(***************************************************************************)
RECURSIVE Concat(_)
Concat(seqs) == IF seqs = <<>> THEN <<>> ELSE Head(seqs) \o Concat(Tail(seqs))

\* A device labels.db: header, sorted table of ID_COUNT ids, fill bytes up
\* to the data section, one slot per id.
DeviceDb(ids, imgs) ==
  createHeader
  \o Concat([i \in 1..Len(ids) |-> UInt32LEBytes(ids[i])])
  \o [k \in 1..(DATA_START - ID_TABLE_START - 4 * Len(ids)) |-> PADDING_FILL]
  \o Concat([i \in 1..Len(ids) |-> createImageSlot(rgbaToBgra(imgs[i]))])

SortedIdSeqs == {s \in [1..ID_COUNT -> CartIds] : \A i, j \in 1..ID_COUNT : i < j => Gt(s[j], s[i])}
DeviceDbs == {DeviceDb(ids, imgs) : ids \in SortedIdSeqs, imgs \in [1..ID_COUNT -> Images]}

(***************************************************************************)
(* Files offered to the parser                                             *)
(***************************************************************************)
WithBytes(buf, off, bytes) == CopyInto(buf, bytes, off)

\* A candidate file: an empty labels.db, or one carrying the type tag of
\* library.db, with at most one header byte overwritten, whole or cut off
\* one byte short of the header.
CandidateInputs ==
  [base : {"labels", "library"}, at : -1..(HEADER_SIZE - 1),
   byte : {0, 65}, len : {HEADER_SIZE - 1, DATA_START}]

Candidate(c) ==
  LET base == IF c.base = "library"
              THEN WithBytes(createEmptyLabelsDb, FILE_TYPE_OFFSET, LIBRARY_FILE_TYPE)
              ELSE createEmptyLabelsDb
      hit == IF c.at >= 0 THEN WithBytes(base, c.at, <<c.byte>>) ELSE base
  IN  Subarray(hit, 0, c.len)

(***************************************************************************)
(* State machine: one labels.db file and the operations applied to it      *)
(***************************************************************************)
InputIds == CartIds

\* op is the last call that wrote the file, with its arguments; a call that
\* fails writes nothing and leaves no trace.
NoOp == [name |-> "none", id |-> NoId, img |-> <<>>, res |-> "", kind |-> ""]

\* hist records how the file came about: origin is "empty" when it started
\* as createEmptyLabelsDb; for such a file adds counts the successful adds
\* while nothing else has changed it (-1 afterwards) and updated tells that
\* an update has succeeded.
Init ==
  /\ file \in {createEmptyLabelsDb} \cup DeviceDbs
  /\ op = NoOp
  /\ hist = [origin |-> IF file = createEmptyLabelsDb THEN "empty" ELSE "device",
             adds |-> 0, updated |-> FALSE]
  /\ run = NoRun /\ app = NoApp /\ games = NoGames /\ rom = NoRom

\* addCartridge(labelsPath, cartId, imageBuffer)
Add(cartId, imageBuffer) ==
  \E r \in {addCartridge(file, cartId, imageBuffer)} :
      /\ SlotCount(file) < MaxSlots
      /\ file' = r.out
      /\ op' = IF r.res = "ok"
               THEN [name |-> "add", id |-> cartId, img |-> imageBuffer, res |-> r.res, kind |-> ""]
               ELSE op
      /\ hist' = IF r.res = "ok" /\ hist.origin = "empty" /\ hist.adds >= 0
                 THEN [hist EXCEPT !.adds = @ + 1] ELSE hist
      /\ UNCHANGED <<run, app, games, rom>>

\* updateLabelImage(labelsPath, cartId, imageBuffer)
Update(cartId, imageBuffer) ==
  \E r \in {updateLabelImage(file, cartId, imageBuffer)} :
      /\ file' = r.out
      /\ op' = IF r.res = "ok"
               THEN [name |-> "update", id |-> cartId, img |-> imageBuffer, res |-> r.res, kind |-> ""]
               ELSE op
      /\ hist' = IF r.res = "ok" /\ hist.origin = "empty"
                 THEN [hist EXCEPT !.adds = -1, !.updated = TRUE] ELSE hist
      /\ UNCHANGED <<run, app, games, rom>>

\* deleteEntry(buf, cartId), the result written back
Delete(cartId) ==
  \E r \in {deleteEntry(file, cartId)} :
      /\ file' = r.out
      /\ op' = IF r.res = "ok"
               THEN [name |-> "delete", id |-> cartId, img |-> <<>>, res |-> r.res, kind |-> ""]
               ELSE op
      /\ hist' = IF r.res = "ok" /\ hist.origin = "empty"
                 THEN [hist EXCEPT !.adds = -1] ELSE hist
      /\ UNCHANGED <<run, app, games, rom>>

Next ==
  \/ \E cartId \in InputIds, imageBuffer \in ImageInputs : Add(cartId, imageBuffer)
  \/ \E cartId \in InputIds, imageBuffer \in ImageInputs : Update(cartId, imageBuffer)
  \/ \E cartId \in InputIds : Delete(cartId)

Spec == Init /\ [][Next]_vars

(***************************************************************************)
(* Opening a file: the header check of parseLabelsDb on candidate files    *)
(***************************************************************************)
InitOpen ==
  /\ file = createEmptyLabelsDb
  /\ op = NoOp
  /\ hist = [origin |-> "empty", adds |-> 0, updated |-> FALSE]
  /\ run = NoRun /\ app = NoApp /\ games = NoGames /\ rom = NoRom

\* parseLabelsDb(labelsPath) on a candidate file
Open(c) ==
  /\ op' = [name |-> "open", id |-> NoId, img |-> <<>>,
            res |-> parseLabelsDb(Candidate(c)).err, kind |-> c]
  /\ UNCHANGED <<file, hist, run, app, games, rom>>

NextOpen == \E c \in CandidateInputs : Open(c)

SpecOpen == InitOpen /\ [][NextOpen]_vars

(***************************************************************************)
(* Export of the local labels to the SD card                               *)
(* exportLabelsToSD (labels-db.ts) and exportLabelsToSDWithProgress        *)
(* (sd-card.ts)                                                            *)
(***************************************************************************)
\* The labels.db files found on the card when an export starts: a full
\* table, slot i holding picture i.
CardFiles == {DeviceDb(ids, [i \in 1..ID_COUNT |-> ImageOf(i)]) : ids \in SortedIdSeqs}

\* getLocalIndex(): null, or the ids recorded by the last import.
NoIndex == [null |-> TRUE, entries |-> <<>>]
LocalIndexes == {NoIndex} \cup {[null |-> FALSE, entries |-> ids] : ids \in SortedIdSeqs}

\* The local <cartId>.png files: absent, a picture, or a file sharp rejects.
NoPng == [has |-> FALSE, png |-> <<>>]
LocalLabelStores ==
  [CartIds -> {NoPng} \cup {[has |-> TRUE, png |-> p] : p \in ImageInputs}]

\* The ids of a set in ascending order.
RECURSIVE SortIds(_)
SortIds(S) ==
  IF S = {} THEN <<>>
  ELSE LET m == CHOOSE a \in S : \A b \in S : a = b \/ Gt(b, a)
       IN  <<m>> \o SortIds(S \ {m})

\* getLocalLabelsList(): the names of the local .png files.
getLocalLabelsList(local) == SortIds({id \in CartIds : local[id].has})

\* First pass of exportLabelsToSD: the local labels whose id the card's
\* table does not hold.
CartsToAdd(db, local) ==
  LET names == getLocalLabelsList(local)
      idx == {k \in 1..Len(names) : ~IdToIndexHas(db, names[k])}
  IN  [k \in 1..Cardinality(idx) |->
         LET n == CHOOSE n \in idx : Cardinality({m \in idx : m < n}) = k - 1
         IN  [cartId |-> names[n], pngBuffer |-> local[names[n]].png]]

\* const index = await getLocalIndex(); if (!index) throw
ExportStart(index, local) ==
  /\ run.pc = "none"
  /\ run' = [pc |-> IF index.null THEN "failed" ELSE "backup",
             kind |-> "export", index |-> index.entries, local |-> local,
             pre |-> file, bak |-> <<>>, hasBak |-> FALSE,
             cartsToAdd |-> <<>>, i |-> 0, added |-> 0,
             db |-> [err |-> "", entries |-> <<>>], data |-> <<>>,
             j |-> 0, exported |-> 0, writes |-> 0,
             res |-> IF index.null THEN "NoIndex" ELSE ""]
  /\ UNCHANGED <<file, op, hist, app, games, rom>>

\* await backupLabelsDb(labelsPath); db = await parseLabelsDb(labelsPath);
\* the first pass over the local label files
ExportBackup(copyOk) ==
  /\ run.pc = "backup"
  /\ \E db \in {parseLabelsDb(file)} :
       run' = IF ~copyOk THEN [run EXCEPT !.pc = "failed", !.res = "IoError"]
              ELSE IF db.err # ""
              THEN [run EXCEPT !.pc = "failed", !.res = db.err,
                               !.bak = file, !.hasBak = TRUE]
              ELSE [run EXCEPT !.pc = "adding", !.bak = file, !.hasBak = TRUE,
                               !.db = db, !.cartsToAdd = CartsToAdd(db, run.local)]
  /\ UNCHANGED <<file, op, hist, app, games, rom>>

\* One pass of "for (const cart of cartsToAdd)": addCartridge writes the
\* file itself, a failure is logged and the loop goes on.
ExportAdd ==
  /\ run.pc = "adding"
  /\ run.i < Len(run.cartsToAdd)
  /\ \E r \in {addCartridge(file, run.cartsToAdd[run.i + 1].cartId,
                            run.cartsToAdd[run.i + 1].pngBuffer)} :
       /\ file' = r.out
       /\ run' = IF r.res = "ok"
                 THEN [run EXCEPT !.i = @ + 1, !.added = @ + 1, !.writes = @ + 1]
                 ELSE [run EXCEPT !.i = @ + 1]
  /\ UNCHANGED <<op, hist, app, games, rom>>

\* if (added > 0) db = await parseLabelsDb(labelsPath);
\* const data = await readFile(labelsPath)
ExportRead ==
  /\ run.pc = "adding"
  /\ run.i = Len(run.cartsToAdd)
  /\ \E db \in {IF run.added > 0 THEN parseLabelsDb(file) ELSE run.db} :
       run' = IF db.err # "" THEN [run EXCEPT !.pc = "failed", !.res = db.err]
              ELSE [run EXCEPT !.pc = "updating", !.db = db, !.data = file]
  /\ UNCHANGED <<file, op, hist, app, games, rom>>

\* One pass of "for (const entry of index.entries)": the picture is put
\* into the buffer held in memory; sharp throws on a file it cannot decode.
ExportUpdate ==
  /\ run.pc = "updating"
  /\ run.j < Len(run.index)
  /\ LET cartId == run.index[run.j + 1]
         localPng == run.local[cartId]
         dec == sharpRaw(localPng.png)
     IN  run' = IF ~localPng.has \/ ~IdToIndexHas(run.db, cartId)
                THEN [run EXCEPT !.j = @ + 1]
                ELSE IF "err" \in DOMAIN dec
                THEN [run EXCEPT !.pc = "failed", !.res = dec.err]
                ELSE [run EXCEPT !.j = @ + 1, !.exported = @ + 1,
                        !.data = CopyInto(run.data, rgbaToBgra(dec.raw),
                                   DATA_START + IdToIndexGet(run.db, cartId) * IMAGE_SLOT_SIZE)]
  /\ UNCHANGED <<file, op, hist, app, games, rom>>

\* await writeFile(labelsPath, data); return { exported, added, total }
ExportWrite ==
  /\ run.pc = "updating"
  /\ run.j = Len(run.index)
  /\ file' = run.data
  /\ run' = [run EXCEPT !.pc = "done", !.writes = @ + 1, !.res = "ok"]
  /\ UNCHANGED <<op, hist, app, games, rom>>

\* The local labels.db of the whole-file export: absent, or a file.
NoLocalDb == [has |-> FALSE, data |-> <<>>]
LocalDbs == {NoLocalDb} \cup {[has |-> TRUE, data |-> d] : d \in CardFiles}

\* Bytes moved by one write of the streamed copy.
CopyChunkSize == 16

\* exportLabelsToSDWithProgress up to the copy: the local file must exist
\* and parse; nothing on the card has been touched yet.
CopyStart(localDb) ==
  /\ run.pc = "none"
  /\ \E db \in {parseLabelsDbCore(localDb.data)} :
       run' = [pc |-> IF ~localDb.has \/ db.err # "" THEN "failed" ELSE "copying",
               kind |-> "copy", src |-> localDb.data,
               pre |-> file, bak |-> <<>>, hasBak |-> FALSE,
               copied |-> 0, writes |-> 0,
               res |-> IF ~localDb.has THEN "NoLocalDb" ELSE db.err]
  /\ UNCHANGED <<file, op, hist, app, games, rom>>

\* copyFileWithProgress(localPath, sdLabelsPath, ...): the destination is
\* opened for writing (emptied) and receives the source chunk by chunk.
CopyChunk ==
  /\ run.pc = "copying"
  /\ LET n == IF Len(run.src) - run.copied < CopyChunkSize
              THEN Len(run.src) - run.copied ELSE CopyChunkSize
         sofar == IF run.copied = 0 THEN <<>> ELSE file
     IN  /\ file' = sofar \o SubSeq(run.src, run.copied + 1, run.copied + n)
         /\ run' = [run EXCEPT !.copied = @ + n, !.writes = @ + 1,
                      !.pc = IF run.copied + n = Len(run.src) THEN "done" ELSE "copying",
                      !.res = IF run.copied + n = Len(run.src) THEN "ok" ELSE ""]
  /\ UNCHANGED <<op, hist, app, games, rom>>

InitExport ==
  /\ file \in CardFiles
  /\ op = NoOp
  /\ hist = [origin |-> "device", adds |-> 0, updated |-> FALSE]
  /\ run = NoRun /\ app = NoApp /\ games = NoGames /\ rom = NoRom

NextExport ==
  \/ \E index \in LocalIndexes, local \in LocalLabelStores : ExportStart(index, local)
  \/ \E copyOk \in BOOLEAN : ExportBackup(copyOk)
  \/ ExportAdd
  \/ ExportRead
  \/ ExportUpdate
  \/ ExportWrite
  \/ \E localDb \in LocalDbs : CopyStart(localDb)
  \/ CopyChunk

SpecExport == InitExport /\ [][NextExport]_vars

(***************************************************************************)
(* The sync page and GET /api/sync/full/apply-stream                       *)
(* (src/components/SyncPage.tsx, server/routes/sync.ts)                    *)
(***************************************************************************)
\* Detected SD cards, requests one page makes, entries of the local
\* labels.db, progress callbacks of one copy.
NumCards == 2
MaxRequests == 2
MaxLabelCount == 2
MaxProgress == 1

sdCards == 1..NumCards
NoCard == 0

\* getLabelsDbStatus(): null, or the entry count and size of the local file.
NoStatus == [null |-> TRUE, entryCount |-> 0, fileSize |-> 0]
LocalStatuses ==
  {NoStatus} \cup {[null |-> FALSE, entryCount |-> n,
                    fileSize |-> DATA_START + n * IMAGE_SLOT_SIZE] : n \in 1..MaxLabelCount}

\* data.<name> of a parsed event: <<v>>, or <<>> for undefined.
Field(data, name) == IF name \in DOMAIN data THEN <<data[name]>> ELSE <<>>

\* The events sendProgress writes.
StartEvent(status) ==
  [type |-> "start", total |-> 1, labelCount |-> status.entryCount,
   totalBytes |-> status.fileSize]
ProgressEvent(status, k) ==
  [type |-> "progress", step |-> "labels", fileName |-> "labels.db",
   bytesWritten |-> (status.fileSize * k) \div MaxProgress,
   totalBytes |-> status.fileSize,
   percentage |-> (100 * k) \div MaxProgress]
CompleteEvent(labels) == [type |-> "complete", results |-> [labels |-> labels]]
ErrorEvent == [type |-> "error", error |-> "Sync failed"]

NoLabelsResult == [success |-> FALSE, entryCount |-> 0, fileSize |-> 0, error |-> FALSE]

\* useState(...) of SyncPage on mount
InitApply ==
  /\ app = [pc |-> "page", selected |-> NoCard, step |-> "preview",
            preview |-> "null", error |-> FALSE, results |-> <<>>,
            progress |-> [current |-> <<0>>, total |-> <<0>>],
            reqs |-> <<>>]
  /\ file = createEmptyLabelsDb /\ op = NoOp
  /\ hist = [origin |-> "empty", adds |-> 0, updated |-> FALSE]
  /\ run = NoRun /\ games = NoGames /\ rom = NoRom

\* fetchPreview(): the preview of the selected card, or an error.
AfterFetchPreview(a, result) ==
  IF a.selected = NoCard THEN [a EXCEPT !.preview = "null"]
  ELSE IF result = "failed" THEN [a EXCEPT !.error = TRUE]
  ELSE [a EXCEPT !.error = FALSE, !.preview = result]

PreviewResults == {"changes", "nochanges", "failed"}

\* The header's <select> changes the card; the effect on fetchPreview
\* reloads the preview, sets the step to preview and drops the results.
SelectCard(card, result) ==
  /\ app.pc = "page"
  /\ card # app.selected
  /\ app' = AfterFetchPreview([app EXCEPT !.selected = card, !.step = "preview",
                                         !.results = <<>>], result)
  /\ UNCHANGED <<file, op, hist, run, games, rom>>

\* The Retry button of the error panel.
Retry(result) ==
  /\ app.pc = "page"
  /\ app.selected # NoCard /\ app.error
  /\ app' = AfterFetchPreview(app, result)
  /\ UNCHANGED <<file, op, hist, run, games, rom>>

\* new EventSource('/api/sync/full/apply-stream?sdCardPath=...'): a request
\* the server has not started on.  exported tells how the export of the
\* request ended ("" while it has not).
NewRequest(sdCardPath) ==
  [path |-> sdCardPath, pc |-> "new", status |-> NoStatus, hasLabels |-> FALSE,
   sent |-> 0, log |-> <<>>, read |-> 0, open |-> TRUE, exported |-> ""]

\* handleSync: the Sync button shows on the preview step with a preview and
\* no error, and is enabled when there are changes.
handleSync ==
  /\ app.pc = "page"
  /\ app.selected # NoCard /\ ~app.error
  /\ app.step = "preview" /\ app.preview = "changes"
  /\ Len(app.reqs) < MaxRequests
  /\ app' = [app EXCEPT !.step = "syncing", !.error = FALSE,
               !.progress = [current |-> <<0>>, total |-> <<0>>],
               !.reqs = Append(@, NewRequest(app.selected))]
  /\ UNCHANGED <<file, op, hist, run, games, rom>>

\* handleReset: the button of the complete step.
handleReset(result) ==
  /\ app.pc = "page"
  /\ app.selected # NoCard /\ ~app.error
  /\ app.step = "complete" /\ app.results # <<>>
  /\ app' = AfterFetchPreview([app EXCEPT !.step = "preview", !.results = <<>>], result)
  /\ UNCHANGED <<file, op, hist, run, games, rom>>

\* router.get('/full/apply-stream') up to the first event: 400 for a
\* directory that is not an Analogue card; otherwise the start event, and
\* with no local labels.db the complete event right after it. A throw of
\* the status calls is answered with the error event.
ApplyStart(r, valid, hasLabels, status, throws) ==
  /\ app.pc = "page"
  /\ r \in 1..Len(app.reqs) /\ app.reqs[r].pc = "new"
  /\ hasLabels = ~status.null
  /\ app' =
       IF ~valid THEN [app EXCEPT !.reqs[r].pc = "rejected"]
       ELSE IF throws
       THEN [app EXCEPT !.reqs[r].pc = "ended", !.reqs[r].log = <<ErrorEvent>>]
       ELSE IF hasLabels
       THEN [app EXCEPT !.reqs[r].pc = "export", !.reqs[r].status = status,
                        !.reqs[r].hasLabels = TRUE,
                        !.reqs[r].log = <<StartEvent(status)>>]
       ELSE [app EXCEPT !.reqs[r].pc = "ended", !.reqs[r].status = status,
                        !.reqs[r].log = <<StartEvent(status), CompleteEvent(NoLabelsResult)>>]
  /\ UNCHANGED <<file, op, hist, run, games, rom>>

\* The progress callback handed to exportLabelsToSDWithProgress.
ApplyProgress(r) ==
  /\ app.pc = "page"
  /\ r \in 1..Len(app.reqs) /\ app.reqs[r].pc = "export"
  /\ app.reqs[r].sent < MaxProgress
  /\ app' = [app EXCEPT !.reqs[r].sent = @ + 1,
               !.reqs[r].log = Append(@, ProgressEvent(app.reqs[r].status,
                                                       app.reqs[r].sent + 1))]
  /\ UNCHANGED <<file, op, hist, run, games, rom>>

\* ApplyComplete with labels.success set whatever the export did.
ApplyComplete_SuccessAlways(r, ok) ==
  /\ app.pc = "page"
  /\ r \in 1..Len(app.reqs) /\ app.reqs[r].pc = "export"
  /\ ok => app.reqs[r].sent = MaxProgress
  /\ LET st == app.reqs[r].status
         labels == [success |-> TRUE, entryCount |-> st.entryCount,
                    fileSize |-> st.fileSize, error |-> ~ok]
     IN  app' = [app EXCEPT !.reqs[r].pc = "ended",
                   !.reqs[r].exported = IF ok THEN "ok" ELSE "failed",
                   !.reqs[r].log = Append(@, CompleteEvent(labels))]
  /\ UNCHANGED <<file, op, hist, run, games, rom>>

\* The export resolves or rejects; either way the complete event is sent
\* and the response ended.
ApplyComplete(r, ok) ==
  /\ app.pc = "page"
  /\ r \in 1..Len(app.reqs) /\ app.reqs[r].pc = "export"
  /\ ok => app.reqs[r].sent = MaxProgress
  /\ LET st == app.reqs[r].status
         labels == IF ok THEN [success |-> TRUE, entryCount |-> st.entryCount,
                               fileSize |-> st.fileSize, error |-> FALSE]
                   ELSE [NoLabelsResult EXCEPT !.error = TRUE]
     IN  app' = [app EXCEPT !.reqs[r].pc = "ended",
                   !.reqs[r].exported = IF ok THEN "ok" ELSE "failed",
                   !.reqs[r].log = Append(@, CompleteEvent(labels))]
  /\ UNCHANGED <<file, op, hist, run, games, rom>>

\* eventSource.onmessage
onmessage(r) ==
  /\ app.pc = "page"
  /\ r \in 1..Len(app.reqs) /\ app.reqs[r].open
  /\ app.reqs[r].read < Len(app.reqs[r].log)
  /\ LET data == app.reqs[r].log[app.reqs[r].read + 1]
         a == [app EXCEPT !.reqs[r].read = @ + 1]
     IN  app' =
           CASE data.type = "start" ->
                  [a EXCEPT !.progress = [current |-> <<0>>, total |-> Field(data, "total")]]
             [] data.type = "progress" ->
                  [a EXCEPT !.progress = [current |-> Field(data, "current"),
                                          total |-> Field(data, "total")]]
             [] data.type = "complete" ->
                  [a EXCEPT !.results = <<data.results>>,
                            !.progress = [current |-> <<100>>, total |-> <<100>>],
                            !.step = "complete", !.reqs[r].open = FALSE]
             [] data.type = "error" ->
                  [a EXCEPT !.error = TRUE, !.step = "preview", !.reqs[r].open = FALSE]
  /\ UNCHANGED <<file, op, hist, run, games, rom>>

\* eventSource.onerror: the request was refused or the connection dropped.
onerror(r) ==
  /\ app.pc = "page"
  /\ r \in 1..Len(app.reqs) /\ app.reqs[r].open
  /\ app' = [app EXCEPT !.error = TRUE, !.step = "preview", !.reqs[r].open = FALSE]
  /\ UNCHANGED <<file, op, hist, run, games, rom>>

NextApply ==
  \/ \E card \in sdCards, result \in PreviewResults : SelectCard(card, result)
  \/ \E result \in PreviewResults : Retry(result)
  \/ handleSync
  \/ \E result \in PreviewResults : handleReset(result)
  \/ \E r \in 1..MaxRequests, valid \in BOOLEAN, hasLabels \in BOOLEAN,
        status \in LocalStatuses, throws \in BOOLEAN :
       ApplyStart(r, valid, hasLabels, status, throws)
  \/ \E r \in 1..MaxRequests : ApplyProgress(r)
  \/ \E r \in 1..MaxRequests, ok \in BOOLEAN : ApplyComplete(r, ok)
  \/ \E r \in 1..MaxRequests : onmessage(r)
  \/ \E r \in 1..MaxRequests : onerror(r)

SpecApply == InitApply /\ [][NextApply]_vars

(***************************************************************************)
(* The event streams of apply requests, server side only                   *)
(* router.get('/full/apply-stream') (routes/sync.ts)                       *)
(***************************************************************************)
\* The page has made one or more requests for a card; none has been
\* started on.
InitStream ==
  /\ \E card \in sdCards, n \in 1..MaxRequests :
       app = [pc |-> "page", selected |-> card, step |-> "syncing",
              preview |-> "changes", error |-> FALSE, results |-> <<>>,
              progress |-> [current |-> <<0>>, total |-> <<0>>],
              reqs |-> [k \in 1..n |-> NewRequest(card)]]
  /\ file = createEmptyLabelsDb /\ op = NoOp
  /\ hist = [origin |-> "empty", adds |-> 0, updated |-> FALSE]
  /\ run = NoRun /\ games = NoGames /\ rom = NoRom

NextStream ==
  \/ \E r \in 1..MaxRequests, valid \in BOOLEAN, hasLabels \in BOOLEAN,
        status \in LocalStatuses, throws \in BOOLEAN :
       ApplyStart(r, valid, hasLabels, status, throws)
  \/ \E r \in 1..MaxRequests : ApplyProgress(r)
  \/ \E r \in 1..MaxRequests, ok \in BOOLEAN : ApplyComplete(r, ok)

SpecStream == InitStream /\ [][NextStream]_vars

(***************************************************************************)
(* Copying the game folders to the SD card                                 *)
(* syncGames (analogue-db.ts), syncGamesToSDWithProgress (sd-card.ts)      *)
(***************************************************************************)
\* Game folders in the source directory.
MaxGames == 4

ItemError(title) == [kind |-> "item", title |-> title]
GeneralError == [kind |-> "general", title |-> 0]

\* The two functions up to their loop. syncGames creates the destination
\* first and turns a failure into a "General sync error" entry;
\* syncGamesToSDWithProgress returns at once for an empty source and
\* rejects when the destination cannot be created.
BatchStart(fn, n, mkdirOk) ==
  /\ games.pc = "none"
  /\ LET g == [pc |-> "loop", fn |-> fn, items |-> [k \in 1..n |-> k],
               started |-> TRUE, i |-> 0, synced |-> <<>>, errors |-> <<>>,
               attempts |-> [k \in 1..n |-> 0]]
     IN  games' =
           IF fn = "syncGames"
           THEN IF mkdirOk THEN g
                ELSE [g EXCEPT !.pc = "done", !.started = FALSE,
                               !.errors = <<GeneralError>>]
           ELSE IF n = 0 THEN [g EXCEPT !.pc = "done"]
                ELSE IF mkdirOk THEN g
                ELSE [g EXCEPT !.pc = "rejected", !.started = FALSE]
  /\ UNCHANGED <<file, op, hist, run, app, rom>>

\* One pass of the loop: try { copy; synced.push } catch { errors.push }
AfterCopy_AbortOnFailure(g, ok) ==
  IF ok
  THEN [g EXCEPT !.i = @ + 1, !.attempts[g.i + 1] = @ + 1,
                 !.synced = Append(@, g.items[g.i + 1])]
  ELSE [g EXCEPT !.i = Len(g.items), !.attempts[g.i + 1] = @ + 1,
                 !.errors = Append(@, ItemError(g.items[g.i + 1]))]

AfterCopy(g, ok) ==
  IF ok
  THEN [g EXCEPT !.i = @ + 1, !.attempts[g.i + 1] = @ + 1,
                 !.synced = Append(@, g.items[g.i + 1])]
  ELSE [g EXCEPT !.i = @ + 1, !.attempts[g.i + 1] = @ + 1,
                 !.errors = Append(@, ItemError(g.items[g.i + 1]))]

BatchCopy(ok) ==
  /\ games.pc = "loop"
  /\ games.i < Len(games.items)
  /\ games' = AfterCopy(games, ok)
  /\ UNCHANGED <<file, op, hist, run, app, rom>>

\* return { synced, errors }
BatchReturn ==
  /\ games.pc = "loop"
  /\ games.i = Len(games.items)
  /\ games' = [games EXCEPT !.pc = "done"]
  /\ UNCHANGED <<file, op, hist, run, app, rom>>

InitBatch ==
  /\ games = NoGames
  /\ file = createEmptyLabelsDb /\ op = NoOp
  /\ hist = [origin |-> "empty", adds |-> 0, updated |-> FALSE]
  /\ run = NoRun /\ app = NoApp /\ rom = NoRom

NextBatch ==
  \/ \E fn \in {"syncGames", "syncGamesToSDWithProgress"}, n \in 0..MaxGames,
        mkdirOk \in BOOLEAN : BatchStart(fn, n, mkdirOk)
  \/ \E ok \in BOOLEAN : BatchCopy(ok)
  \/ BatchReturn

SpecBatch == InitBatch /\ [][NextBatch]_vars

(***************************************************************************)
(* Renaming a game: updateGameTitle (analogue-db.ts)                       *)
(***************************************************************************)
\* Game folders of the games directory, titles a user can give.
NumFolders == 2
NumTitles == 3

Titles == 1..NumTitles

\* A game folder: the title in the folder's name ("<title> <id>") and the
\* title field of its settings.json.
GameFolders == [name : Titles, title : Titles]

InitRename ==
  /\ games \in {[pc |-> "idle", folders |-> f, cur |-> 0, newTitle |-> 0, res |-> ""] :
                  f \in [1..NumFolders -> {d \in GameFolders : d.name = d.title}]}
  /\ file = createEmptyLabelsDb /\ op = NoOp
  /\ hist = [origin |-> "empty", adds |-> 0, updated |-> FALSE]
  /\ run = NoRun /\ app = NoApp /\ rom = NoRom

\* PATCH /api/games/:id with a title other than the game's: the call of
\* updateGameTitle(gamesDir, game, newTitle)
updateGameTitle(g, newTitle) ==
  /\ games.pc = "idle"
  /\ newTitle # games.folders[g].name
  /\ games' = [games EXCEPT !.pc = "rename", !.cur = g, !.newTitle = newTitle, !.res = ""]
  /\ UNCHANGED <<file, op, hist, run, app, rom>>

\* await rename(game.folderPath, newFolderPath)
RenameFolder(ok) ==
  /\ games.pc = "rename"
  /\ games' = IF ok
              THEN [games EXCEPT !.pc = "write", !.folders[games.cur].name = games.newTitle]
              ELSE [games EXCEPT !.pc = "idle", !.res = "renameFailed"]
  /\ UNCHANGED <<file, op, hist, run, app, rom>>

\* await writeFile(newSettingsPath, JSON.stringify(newSettings))
WriteSettings(ok) ==
  /\ games.pc = "write"
  /\ games' = IF ok
              THEN [games EXCEPT !.pc = "idle", !.res = "ok",
                                 !.folders[games.cur].title = games.newTitle]
              ELSE [games EXCEPT !.pc = "idle", !.res = "writeFailed"]
  /\ UNCHANGED <<file, op, hist, run, app, rom>>

NextRename ==
  \/ \E g \in 1..NumFolders, newTitle \in Titles : updateGameTitle(g, newTitle)
  \/ \E ok \in BOOLEAN : RenameFolder(ok)
  \/ \E ok \in BOOLEAN : WriteSettings(ok)

SpecRename == InitRename /\ [][NextRename]_vars

(***************************************************************************)
(* The cart id of a ROM file (scripts/compute-a3d-id.ts)                   *)
(***************************************************************************)
\* 32-bit words of the hashed prefix, words behind it, bytes of a checksum
\* input.
HashWords == 2
MaxTailWords == 1
MaxCrcLen == 3

\* const A3D_HASH_SIZE = 8192, scaled; a whole number of 32-bit words.
A3D_HASH_SIZE == 4 * HashWords
HEADER_READ == 64

\* A JavaScript number holding a 32-bit result, as hi * 65536 + lo: the
\* bitwise operators give a signed value (hi in -32768..32767), >>> an
\* unsigned one (hi in 0..65535).
ToUint32(n) == [hi |-> IF n.hi < 0 THEN n.hi + 65536 ELSE n.hi, lo |-> n.lo]
ToInt32(n) == [hi |-> IF n.hi >= 32768 THEN n.hi - 65536 ELSE n.hi, lo |-> n.lo]

RECURSIVE BitXor(_, _, _)
BitXor(a, b, bits) ==
  IF bits = 0 THEN 0
  ELSE (((a % 2) + (b % 2)) % 2) + 2 * BitXor(a \div 2, b \div 2, bits - 1)

\* a ^ b
Xor32(a, b) ==
  ToInt32([hi |-> BitXor(ToUint32(a).hi, ToUint32(b).hi, 16),
           lo |-> BitXor(a.lo, b.lo, 16)])

\* a >>> 1 and a >>> 8
Shr1(a) ==
  [hi |-> ToUint32(a).hi \div 2, lo |-> (ToUint32(a).hi % 2) * 32768 + a.lo \div 2]
Shr8(a) ==
  [hi |-> ToUint32(a).hi \div 256, lo |-> (ToUint32(a).hi % 256) * 256 + a.lo \div 256]

POLY == U32(60856, 33568)
ALL_ONES == U32(65535, 65535)

\* The inner loop of the table: crc & 1 ? 0xEDB88320 ^ (crc >>> 1) : crc >>> 1
TableShift(crc) == IF crc.lo % 2 = 1 THEN Xor32(POLY, Shr1(crc)) ELSE Shr1(crc)

\* The element of a one-element set.
Only(S) == CHOOSE x \in S : TRUE

RECURSIVE TableCrc(_, _)
TableCrc(i, j) ==
  IF j = 0 THEN U32(0, i)
  ELSE Only({TableShift(crc) : crc \in {TableCrc(i, j - 1)}})

\* table[i] = crc >>> 0
CRC32_TABLE == [i \in 0..255 |-> ToUint32(TableCrc(i, 8))]

\* crc = CRC32_TABLE[(crc ^ data[i]) & 0xFF] ^ (crc >>> 8)
TableLookup(crc, byte) ==
  Xor32(CRC32_TABLE[Xor32(crc, U32(0, byte)).lo % 256], Shr8(crc))

RECURSIVE crc32Loop(_, _)
crc32Loop(data, n) ==
  IF n = 0 THEN ALL_ONES
  ELSE Only({TableLookup(crc, data[n]) : crc \in {crc32Loop(data, n - 1)}})

\* return (crc ^ 0xFFFFFFFF) >>> 0
crc32_NoUnsignedShift(data) == Xor32(crc32Loop(data, Len(data)), ALL_ONES)

crc32(data) == ToUint32(Xor32(crc32Loop(data, Len(data)), ALL_ONES))

\* The first four bytes of a ROM in the three byte orders.
Z64_MAGIC == <<128, 55, 18, 64>>
V64_MAGIC == <<55, 128, 64, 18>>
N64_MAGIC == <<64, 18, 55, 128>>

detectRomFormat(data) ==
  IF Len(data) < 4 THEN "unknown"
  ELSE LET first4 == Subarray(data, 0, 4)
       IN  IF first4 = Z64_MAGIC THEN "z64"
           ELSE IF first4 = V64_MAGIC THEN "v64"
           ELSE IF first4 = N64_MAGIC THEN "n64"
           ELSE "unknown"

\* v64: result[i] = data[i + 1], result[i + 1] = data[i], i += 2;
\* n64: the four bytes of every word reversed. A read past the end gives
\* undefined, stored as 0.
convertToZ64_KeepsV64(data, format) ==
  IF format = "n64"
  THEN [k \in 1..Len(data) |-> ByteAt(data, 4 * ((k - 1) \div 4) + 3 - ((k - 1) % 4))]
  ELSE data

convertToZ64(data, format) ==
  IF format = "v64"
  THEN [k \in 1..Len(data) |->
          ByteAt(data, IF (k - 1) % 2 = 0 THEN k ELSE k - 2)]
  ELSE IF format = "n64"
  THEN [k \in 1..Len(data) |-> ByteAt(data, 4 * ((k - 1) \div 4) + 3 - ((k - 1) % 4))]
  ELSE data

\* Number.prototype.toString(16) of one 16-bit half, and
\* crc.toString(16).padStart(8, '0') as a list of digit values; a negative
\* number prints a minus sign (here -1) before its digits.
Hex4(v) == <<v \div 4096, (v \div 256) % 16, (v \div 16) % 16, v % 16>>

RECURSIVE DropZeros(_)
DropZeros(ds) == IF Len(ds) > 1 /\ ds[1] = 0 THEN DropZeros(Tail(ds)) ELSE ds

toString16(n) ==
  IF n.hi < 0
  THEN LET m == IF n.lo = 0 THEN [hi |-> -n.hi, lo |-> 0]
                ELSE [hi |-> -n.hi - 1, lo |-> 65536 - n.lo]
       IN  <<-1>> \o DropZeros(Hex4(m.hi) \o Hex4(m.lo))
  ELSE DropZeros(Hex4(n.hi) \o Hex4(n.lo))

padStart8(ds) == [k \in 1..(8 - Len(ds)) |-> 0] \o ds

TooSmall == [err |-> "ROM file too small", id |-> <<>>, format |-> ""]

computeA3DId_NoLengthCheck(fd) ==
  LET data == Subarray(fd, 0, A3D_HASH_SIZE + HEADER_READ)
      format == detectRomFormat(data)
      z64Data == convertToZ64(data, format)
  IN  [err |-> "", format |-> format,
       id |-> padStart8(toString16(crc32(Subarray(z64Data, 0, A3D_HASH_SIZE))))]

computeA3DId(fd) ==
  LET data == Subarray(fd, 0, A3D_HASH_SIZE + HEADER_READ)
      format == detectRomFormat(data)
      z64Data == convertToZ64(data, format)
  IN  IF Len(data) < A3D_HASH_SIZE THEN TooSmall
      ELSE [err |-> "", format |-> format,
            id |-> padStart8(toString16(crc32(Subarray(z64Data, 0, A3D_HASH_SIZE))))]

\* The files handed to the script: big-endian ROMs with a body of two byte
\* values and up to MaxTailWords words behind the hashed prefix; the same
\* in the two swapped byte orders and with an unknown signature; cut-off
\* files; short byte strings.
RomBytes == {0, 165}
TailBytes == {90, 195}

Z64Roms ==
  {Z64_MAGIC \o body \o [k \in 1..(4 * t) |-> b] :
     body \in [1..(A3D_HASH_SIZE - 4) -> RomBytes],
     t \in 0..MaxTailWords, b \in TailBytes}

Pairwise(x) == [k \in 1..Len(x) |-> ByteAt(x, IF (k - 1) % 2 = 0 THEN k ELSE k - 2)]
Wordwise(x) == [k \in 1..Len(x) |-> ByteAt(x, 4 * ((k - 1) \div 4) + 3 - ((k - 1) % 4))]

RomFiles ==
  Z64Roms
    \cup {Pairwise(x) : x \in Z64Roms}
    \cup {Wordwise(x) : x \in Z64Roms}
    \cup {<<0>> \o Tail(x) : x \in Z64Roms}
    \cup {Subarray(x, 0, n) : x \in Z64Roms, n \in 0..(A3D_HASH_SIZE - 1)}

CrcBytes == {0, 1, 49, 128, 255}
CrcInputs == UNION {[1..n -> CrcBytes] : n \in 0..MaxCrcLen}

InitId ==
  /\ rom \in {[pc |-> "file", data |-> d] : d \in RomFiles \cup CrcInputs}
  /\ file = createEmptyLabelsDb /\ op = NoOp
  /\ hist = [origin |-> "empty", adds |-> 0, updated |-> FALSE]
  /\ run = NoRun /\ app = NoApp /\ games = NoGames

\* main: computeA3DId(romPath) on the file
ComputeId ==
  /\ rom.pc = "file"
  /\ rom' = [pc |-> "id", data |-> rom.data, res |-> computeA3DId(rom.data)]
  /\ UNCHANGED <<file, op, hist, run, app, games>>

\* crc32(data) on the bytes of the file
Checksum ==
  /\ rom.pc = "file"
  /\ rom' = [pc |-> "crc", data |-> rom.data, res |-> crc32(rom.data)]
  /\ UNCHANGED <<file, op, hist, run, app, games>>

NextId == ComputeId \/ Checksum

SpecId == InitId /\ [][NextId]_vars

(***************************************************************************)
(* copyFileWithProgress (server/lib/file-transfer.ts)                      *)
(***************************************************************************)
\* Chunks of the largest source file, the throttle interval and the
\* longest time one chunk takes, in milliseconds.
MaxChunks == 2
ThrottleMs == 2
MaxChunkMs == 2

\* Source files as the tests build them: byte i holds i % 256.
TestFile(size) == [i \in 1..size |-> (i - 1) % 256]
TransferSizes == {k * CopyChunkSize + r : k \in 0..MaxChunks, r \in {0, 1}}

\* A FileProgress snapshot and the time it was handed to the callback.
FileProgress(written, total, at) ==
  [bytesWritten |-> written, totalBytes |-> total,
   percentage |-> IF total = 0 THEN 100 ELSE (written * 100) \div total,
   at |-> at]

\* copyFileWithProgress(src, dst, onProgress, throttleMs): the destination
\* is created empty.
TransferStart(size, throttleMs) ==
  /\ run.pc = "none"
  /\ run' = [pc |-> "transfer", kind |-> "transfer", src |-> TestFile(size),
             throttleMs |-> throttleMs, copied |-> 0, now |-> 0,
             lastUpdate |-> 0, calls |-> <<>>, res |-> ""]
  /\ file' = <<>>
  /\ UNCHANGED <<op, hist, app, games, rom>>

\* One chunk is read and written; the callback is made when throttleMs
\* have passed since the last one.
TransferChunk(ms) ==
  /\ run.pc = "transfer"
  /\ run.copied < Len(run.src)
  /\ LET n == IF Len(run.src) - run.copied < CopyChunkSize
              THEN Len(run.src) - run.copied ELSE CopyChunkSize
         now == run.now + ms
         due == now - run.lastUpdate >= run.throttleMs
     IN  /\ file' = file \o SubSeq(run.src, run.copied + 1, run.copied + n)
         /\ run' = [run EXCEPT !.copied = @ + n, !.now = now,
                      !.lastUpdate = IF due THEN now ELSE @,
                      !.calls = IF due
                                THEN Append(@, FileProgress(run.copied + n, Len(run.src), now))
                                ELSE @]
  /\ UNCHANGED <<op, hist, app, games, rom>>

\* The stream has finished: the terminal snapshot, whatever the throttle.
TransferFinish_NoTerminalCall ==
  /\ run.pc = "transfer"
  /\ run.copied = Len(run.src)
  /\ run' = [run EXCEPT !.pc = "copied", !.res = "ok"]
  /\ UNCHANGED <<file, op, hist, app, games, rom>>

TransferFinish ==
  /\ run.pc = "transfer"
  /\ run.copied = Len(run.src)
  /\ run' = [run EXCEPT !.pc = "copied", !.res = "ok",
               !.calls = Append(@, FileProgress(run.copied, Len(run.src), run.now))]
  /\ UNCHANGED <<file, op, hist, app, games, rom>>

InitTransfer ==
  /\ file \in CardFiles
  /\ op = NoOp
  /\ hist = [origin |-> "device", adds |-> 0, updated |-> FALSE]
  /\ run = NoRun /\ app = NoApp /\ games = NoGames /\ rom = NoRom

NextTransfer ==
  \/ \E size \in TransferSizes, throttleMs \in {0, ThrottleMs} : TransferStart(size, throttleMs)
  \/ \E ms \in 0..MaxChunkMs : TransferChunk(ms)
  \/ TransferFinish

SpecTransfer == InitTransfer /\ [][NextTransfer]_vars

(***************************************************************************)
(* The colour conversions applied to a pixel buffer                        *)
(* (tests/labels-db/tests.ts, colorTests)                                  *)
(***************************************************************************)
MaxColorLen == 8

ColorBytes == {10, 200}

\* Buffer.from([...]) of every length up to MaxColorLen.
ColorBuffers == UNION {[1..n -> ColorBytes] : n \in 0..MaxColorLen}

\* bgraToRgba(x): run.x is the buffer handed in, run.cur the one returned;
\* the call returns normally for every buffer.
ToDisplay ==
  /\ run.pc = "store"
  /\ run' = [run EXCEPT !.pc = "display", !.cur = bgraToRgbaCore(run.cur), !.res = "ok"]
  /\ UNCHANGED <<file, op, hist, app, games, rom>>

\* rgbaToBgra(bgraToRgba(x))
ToStore ==
  /\ run.pc = "display"
  /\ run' = [run EXCEPT !.pc = "back", !.cur = rgbaToBgraCore(run.cur), !.res = "ok"]
  /\ UNCHANGED <<file, op, hist, app, games, rom>>

InitColor ==
  /\ file = <<>>
  /\ op = NoOp
  /\ hist = [origin |-> "device", adds |-> 0, updated |-> FALSE]
  /\ \E x \in ColorBuffers :
       run = [pc |-> "store", kind |-> "color", x |-> x, cur |-> x, res |-> ""]
  /\ app = NoApp /\ games = NoGames /\ rom = NoRom

NextColor ==
  \/ ToDisplay
  \/ ToStore

SpecColor == InitColor /\ [][NextColor]_vars

(***************************************************************************)
(* Two calls on the same labels.db at once                                 *)
(* updateLabelImage and addCartridge (labels-db.ts) each await the parse,  *)
(* the image conversion, the read and the write; other calls run between   *)
(* the awaits.                                                             *)
(***************************************************************************)
\* A call: updateLabelImage or addCartridge with its arguments.
Calls == [name : {"update", "add"}, id : CartIds, img : Images]

\* The pairs of calls in flight together: an update with an update of
\* another cartridge, or an update with an add.
CallPairs ==
  {pair \in Calls \X Calls :
     /\ pair[1].name = "update"
     /\ pair[2].name = "update" => pair[1].id # pair[2].id}

NewCall(c) ==
  [name |-> c.name, id |-> c.id, img |-> c.img, pc |-> "new",
   db |-> [err |-> "", entries |-> <<>>], out |-> <<>>, res |-> ""]

\* const db = await parseLabelsDb(labelsPath), the index test and the
\* conversion of the picture.
RaceParse(p) ==
  /\ run.pc = "race"
  /\ run.procs[p].pc = "new"
  /\ \E db \in {parseLabelsDb(file)} :
       LET c == run.procs[p]
           dec == sharpRaw(c.img)
           res == IF db.err # "" THEN db.err
                  ELSE IF c.name = "update" /\ ~IdToIndexHas(db, c.id) THEN "NotFound"
                  ELSE IF c.name = "add" /\ IdToIndexHas(db, c.id) THEN "AlreadyExists"
                  ELSE IF "err" \in DOMAIN dec THEN dec.err
                  ELSE IF c.name = "update" /\ Len(dec.raw) # IMAGE_DATA_SIZE
                       THEN "SizeMismatch"
                  ELSE ""
       IN  run' = [run EXCEPT !.procs[p] =
                     IF res # "" THEN [c EXCEPT !.pc = "failed", !.res = res]
                     ELSE [c EXCEPT !.pc = "parsed", !.db = db]]
  /\ UNCHANGED <<file, op, hist, app, games, rom>>

\* const data = await readFile(labelsPath) and the buffer built from it
\* with the index found by the earlier parse.
RaceRead(p) ==
  /\ run.pc = "race"
  /\ run.procs[p].pc = "parsed"
  /\ LET c == run.procs[p]
         bgraData == rgbaToBgra(sharpRaw(c.img).raw)
     IN  run' = [run EXCEPT !.procs[p] =
                   IF c.name = "update"
                   THEN [c EXCEPT !.pc = "read",
                           !.out = CopyInto(file, bgraData,
                                     DATA_START + IdToIndexGet(c.db, c.id) * IMAGE_SLOT_SIZE)]
                   ELSE IF SlotCopyThrows(file, Len(c.db.entries))
                   THEN [c EXCEPT !.pc = "failed", !.res = "RangeError"]
                   ELSE [c EXCEPT !.pc = "read",
                           !.out = NewData(file, c.db.entries, c.id,
                                           InsertIndex(c.db.entries, c.id), bgraData)]]
  /\ UNCHANGED <<file, op, hist, app, games, rom>>

\* await writeFile(labelsPath, data)
RaceWrite(p) ==
  /\ run.pc = "race"
  /\ run.procs[p].pc = "read"
  /\ file' = run.procs[p].out
  /\ run' = [run EXCEPT !.procs[p].pc = "done", !.procs[p].res = "ok"]
  /\ UNCHANGED <<op, hist, app, games, rom>>

InitRace ==
  /\ file \in CardFiles
  /\ op = NoOp
  /\ hist = [origin |-> "device", adds |-> 0, updated |-> FALSE]
  /\ \E pair \in CallPairs :
       run = [pc |-> "race", kind |-> "race", pre |-> file,
              procs |-> <<NewCall(pair[1]), NewCall(pair[2])>>]
  /\ app = NoApp /\ games = NoGames /\ rom = NoRom

NextRace ==
  \/ \E p \in 1..2 : RaceParse(p)
  \/ \E p \in 1..2 : RaceRead(p)
  \/ \E p \in 1..2 : RaceWrite(p)

SpecRace == InitRace /\ [][NextRace]_vars

(***************************************************************************)
(* The library's buffer operations, applied to a container held in memory *)
(* (tests/labels-db/tests.ts, CRUD tests)                                  *)
(***************************************************************************)
CoreMaxSlots == 2

\* Ids handed to the library: ordinary ones, the largest id below the fill
\* pattern, and the fill pattern itself.
CoreIds == {IdOf(1), IdOf(2), U32(65535, 65534), FILL_ID}

\* db = await addEntry(db, cartId, imageBuffer); a call that throws leaves
\* db as it was.  hist.pre is db before the last call that returned.
CoreAdd(cartId, imageBuffer) ==
  \E r \in {addEntry(file, cartId, imageBuffer)} :
      /\ SlotCount(file) < CoreMaxSlots
      /\ file' = r.out
      /\ op' = IF r.res = "ok"
               THEN [name |-> "add", id |-> cartId, img |-> imageBuffer, res |-> r.res, kind |-> "core"]
               ELSE op
      /\ hist' = IF r.res = "ok" THEN [pre |-> file] ELSE hist
      /\ UNCHANGED <<run, app, games, rom>>

\* db = await updateEntry(db, cartId, imageBuffer)
CoreUpdate(cartId, imageBuffer) ==
  \E r \in {updateEntry(file, cartId, imageBuffer)} :
      /\ file' = r.out
      /\ op' = IF r.res = "ok"
               THEN [name |-> "update", id |-> cartId, img |-> imageBuffer, res |-> r.res, kind |-> "core"]
               ELSE op
      /\ hist' = IF r.res = "ok" THEN [pre |-> file] ELSE hist
      /\ UNCHANGED <<run, app, games, rom>>

\* db = deleteEntry(db, cartId)
CoreDelete(cartId) ==
  \E r \in {deleteEntry(file, cartId)} :
      /\ file' = r.out
      /\ op' = IF r.res = "ok"
               THEN [name |-> "delete", id |-> cartId, img |-> <<>>, res |-> r.res, kind |-> "core"]
               ELSE op
      /\ hist' = IF r.res = "ok" THEN [pre |-> file] ELSE hist
      /\ UNCHANGED <<run, app, games, rom>>

InitCore ==
  /\ file = createEmptyLabelsDb
  /\ op = NoOp
  /\ hist = [pre |-> <<>>]
  /\ run = NoRun /\ app = NoApp /\ games = NoGames /\ rom = NoRom

NextCore ==
  \/ \E cartId \in CoreIds, imageBuffer \in ImageInputs : CoreAdd(cartId, imageBuffer)
  \/ \E cartId \in CoreIds, imageBuffer \in ImageInputs : CoreUpdate(cartId, imageBuffer)
  \/ \E cartId \in CoreIds : CoreDelete(cartId)

SpecCore == InitCore /\ [][NextCore]_vars

(***************************************************************************)
(* Byte progress of the batch of game folders                              *)
(* syncGamesToSDWithProgress (sd-card.ts)                                  *)
(***************************************************************************)
MaxFolders == 2
MaxFolderSize == 2

\* getGameFoldersWithSizes(sourceDir): the sizes of the game folders, in
\* directory order.
FolderSizes == UNION {[1..n -> 0..MaxFolderSize] : n \in 0..MaxFolders}

RECURSIVE SumSizes(_)
SumSizes(sizes) == IF sizes = <<>> THEN 0 ELSE Head(sizes) + SumSizes(Tail(sizes))

\* copyDirWithProgress: the overallBytesWritten of its next snapshot, one
\* unit further into the folder.
CopyDirAdvance(written, size) == IF written < size THEN {written + 1} ELSE {}

\* The snapshot the wrapper hands to onProgress.
BatchSnapshot(g, inner) ==
  [currentFile |-> g.i, totalFiles |-> Len(g.sizes),
   overallBytesWritten |-> g.completedBytes + inner,
   overallTotalBytes |-> g.totalBytes]

\* syncGamesToSDWithProgress up to the loop: no games, or mkdir and the
\* first folder.
SyncStart(sizes, mkdirOk) ==
  /\ games.pc = "none"
  /\ games' = [pc |-> IF sizes = <<>> THEN "returned"
                      ELSE IF mkdirOk THEN "copying" ELSE "threw",
               kind |-> "progress", sizes |-> sizes, i |-> 1,
               completedBytes |-> 0, totalBytes |-> SumSizes(sizes),
               inner |-> 0, calls |-> <<>>, synced |-> {}, failed |-> {}]
  /\ UNCHANGED <<file, op, hist, run, app, rom>>

\* The folder copy moves on; its snapshot reaches onProgress when the
\* throttle lets it through.
CopyDirChunk(report) ==
  /\ games.pc = "copying"
  /\ \E w \in CopyDirAdvance(games.inner, games.sizes[games.i]) :
       games' = [games EXCEPT !.inner = w,
                   !.calls = IF report THEN Append(@, BatchSnapshot(games, w)) ELSE @]
  /\ UNCHANGED <<file, op, hist, run, app, rom>>

\* The loop moves to the next folder, or returns after the last one.
NextFolder(g) ==
  IF g.i < Len(g.sizes) THEN [g EXCEPT !.i = @ + 1, !.inner = 0]
  ELSE [g EXCEPT !.pc = "returned"]

\* The folder has been copied, with completedBytes left where it was.
CopyDirDone_NoAdvance ==
  /\ games.pc = "copying"
  /\ games.inner = games.sizes[games.i]
  /\ games' = NextFolder([games EXCEPT !.synced = @ \cup {games.i}])
  /\ UNCHANGED <<file, op, hist, run, app, rom>>

\* The folder has been copied: synced.push(game.title);
\* completedBytes += game.size
CopyDirDone ==
  /\ games.pc = "copying"
  /\ games.inner = games.sizes[games.i]
  /\ games' = NextFolder([games EXCEPT !.synced = @ \cup {games.i},
                                        !.completedBytes = @ + games.sizes[games.i]])
  /\ UNCHANGED <<file, op, hist, run, app, rom>>

\* copyDirWithProgress throws, at any point of the folder: errors.push(...)
CopyDirFail ==
  /\ games.pc = "copying"
  /\ games' = NextFolder([games EXCEPT !.failed = @ \cup {games.i}])
  /\ UNCHANGED <<file, op, hist, run, app, rom>>

InitProgress ==
  /\ file = <<>>
  /\ op = NoOp
  /\ hist = [origin |-> "device", adds |-> 0, updated |-> FALSE]
  /\ run = NoRun /\ app = NoApp /\ games = NoGames /\ rom = NoRom

NextProgress ==
  \/ \E sizes \in FolderSizes, mkdirOk \in BOOLEAN : SyncStart(sizes, mkdirOk)
  \/ \E report \in BOOLEAN : CopyDirChunk(report)
  \/ CopyDirDone
  \/ CopyDirFail

SpecProgress == InitProgress /\ [][NextProgress]_vars

(***************************************************************************)
(* Properties                                                              *)
(***************************************************************************)
Entries(data) == parseLabelsDb(data).entries
Present(data, cartId) == IdToIndexHas(parseLabelsDb(data), cartId)
CoreEntries(buf) == parseLabelsDbCore(buf).entries
CorePresent(buf, cartId) == IdToIndexHas(parseLabelsDbCore(buf), cartId)

\* C1: after any sequence of successful adds and deletes on an empty
\* container, the parsed entries are strictly ascending by cartId and each
\* entry's index is its table position.
C1_SortInvariant ==
  (hist.origin = "empty" /\ ~hist.updated) =>
    LET db == parseLabelsDb(file)
    IN  /\ db.err = ""
        /\ \A i \in 1..Len(db.entries) :
             /\ db.entries[i].index = i - 1
             /\ db.entries[i].imageOffset = DATA_START + (i - 1) * IMAGE_SLOT_SIZE
        /\ \A i, j \in 1..Len(db.entries) :
             i < j => Gt(db.entries[j].cartId, db.entries[i].cartId)

\* C2: a successful add keeps every id that was present, with the image it
\* had; the index of an entry grows by one exactly when it sat at or after
\* the insertion point and is otherwise unchanged.
C2_AddKeepsEntries ==
  [][(op'.name = "add" /\ op'.res = "ok") =>
       \A cartId \in InputIds :
         Present(file, cartId) =>
           /\ Present(file', cartId)
           /\ getLabelImage(file', cartId).rgba = getLabelImage(file, cartId).rgba
           /\ LET old == IdToIndexGet(parseLabelsDb(file), cartId)
                  new == IdToIndexGet(parseLabelsDb(file'), cartId)
                  ins == IdToIndexGet(parseLabelsDb(file'), op'.id)
              IN  new = IF old >= ins THEN old + 1 ELSE old]_vars

\* C3: an image stored by a successful add or update is what getImage
\* returns for that id on the resulting container.
C3_StoreThenGet ==
  [][(op'.name \in {"add", "update"} /\ op'.res = "ok") =>
       /\ getLabelImage(file', op'.id).found
       /\ getLabelImage(file', op'.id).rgba = op'.img]_vars

\* C4: an empty container after n successful adds parses to n entries and
\* is DATA_START + n * IMAGE_SLOT_SIZE bytes long.
C4_SizeFormula ==
  (hist.origin = "empty" /\ hist.adds >= 0) =>
    /\ Len(Entries(file)) = hist.adds
    /\ Len(file) = DATA_START + hist.adds * IMAGE_SLOT_SIZE

\* C5: a successful delete returns a container one slot shorter, without
\* the deleted id, with every other id still present, in the same relative
\* order and with the same image.
C5_DeleteCompacts ==
  [][(op'.name = "delete" /\ op'.res = "ok") =>
       LET before == CoreEntries(file)
           after == CoreEntries(file')
           idx == IdToIndexGet(parseLabelsDbCore(file), op'.id)
       IN  /\ Len(file') = Len(file) - IMAGE_SLOT_SIZE
           /\ ~CorePresent(file', op'.id)
           /\ ~Present(file', op'.id)
           /\ Len(after) = Len(before) - 1
           /\ \A i \in 1..Len(after) :
                /\ after[i].cartId = before[IF i - 1 < idx THEN i ELSE i + 1].cartId
                /\ after[i].index = i - 1
                /\ getImageByCartId(file', after[i].cartId).rgba
                     = getImageByCartId(file, after[i].cartId).rgba
           /\ \A cartId \in InputIds :
                (Present(file, cartId) /\ cartId # op'.id) =>
                  /\ Present(file', cartId)
                  /\ getLabelImage(file', cartId).rgba = getLabelImage(file, cartId).rgba]_vars

C5_Witness ==
  /\ op.name = "delete" /\ op.res = "ok"
  /\ Len(CoreEntries(file)) >= 1
  /\ IdToIndexGet(parseLabelsDbCore(file), CoreEntries(file)[Len(CoreEntries(file))].cartId) >= 0
  /\ Gt(CoreEntries(file)[Len(CoreEntries(file))].cartId, op.id)

C8_ParseStopsAtFill ==
  LET db == parseLabelsDb(file)
  IN  /\ \A i \in 1..Len(db.entries) : db.entries[i].cartId # FILL_ID
      /\ Len(db.entries) <= SlotCount(file)
      /\ file = createEmptyLabelsDb => Len(db.entries) = 0

\* C9: a buffer is accepted only with a full header whose magic byte,
\* identifier and type tag are the expected ones, and each defect has its
\* own error.
C9_HeaderErrors ==
  op.name = "open" =>
    /\ (op.res = "") <=> (verifyHeader(Candidate(op.kind)) = "")
    /\ \A other \in CandidateInputs :
         (/\ op.res # ""
          /\ verifyHeader(Candidate(other)) # ""
          /\ verifyHeader(Candidate(other)) # verifyHeader(Candidate(op.kind))) =>
           parseLabelsDb(Candidate(other)).err # op.res

\* C10: every image slot is IMAGE_SLOT_SIZE bytes and its last
\* SLOT_PADDING bytes are the fill value.
C10_SlotPadding ==
  /\ Len(file) >= DATA_START
  /\ (Len(file) - DATA_START) % IMAGE_SLOT_SIZE = 0
  /\ \A j \in 0..(SlotCount(file) - 1) :
       \A r \in IMAGE_DATA_SIZE..(IMAGE_SLOT_SIZE - 1) :
         ByteAt(file, DATA_START + j * IMAGE_SLOT_SIZE + r) = PADDING_FILL

\* C11: the label phase is all-or-nothing on disk: the card's file is
\* written at most once in a run, only as the run's last step, and until
\* then it holds the bytes it had when the run started.
C11_AllOrNothing ==
  (run.pc # "none" /\ run.kind = "export") =>
    /\ run.writes <= 1
    /\ run.writes = 1 => run.pc = "done"
    /\ run.pc # "done" => file = run.pre

\* C12: whenever the card's labels.db no longer holds its pre-run bytes,
\* the sibling backup exists and holds exactly those bytes; this on the
\* in-place export and on the whole-file copy alike.
C12_BackupFirst ==
  (run.pc # "none" /\ file # run.pre) => (run.hasBak /\ run.bak = run.pre)

\* A request whose handler is exporting to the card.
InFlight(req) == req.pc = "export"

\* C13: no two apply requests are in flight for the same SD card path.

C13_OneApplyPerCard ==
  app.pc = "page" =>
    \A r1, r2 \in 1..Len(app.reqs) :
      (r1 # r2 /\ InFlight(app.reqs[r1]) /\ InFlight(app.reqs[r2]))
        => app.reqs[r1].path # app.reqs[r2].path

\* How often a value occurs in a list.
Occurrences(list, v) == Cardinality({k \in 1..Len(list) : list[k] = v})

\* Every item was attempted once, is in exactly one of the two lists, and
\* the lists hold as many elements as there are items.
BatchAccounted(g) ==
  /\ \A k \in 1..Len(g.items) :
       /\ g.attempts[k] = 1
       /\ Occurrences(g.synced, g.items[k])
            + Occurrences(g.errors, ItemError(g.items[k])) = 1
  /\ Len(g.synced) + Len(g.errors) = Len(g.items)

C15_SettingsBeforeRename ==
  games.pc \in {"idle", "rename", "write"} /\ games.cur # 0 =>
    /\ games.folders[games.cur].name = games.newTitle
         => games.folders[games.cur].title = games.newTitle
    /\ games.res = "renameFailed"
         => games.folders[games.cur].title = games.newTitle

\* The counter events of one apply run, in the order sent.
CounterEvents(req) ==
  SelectSeq(req.log, LAMBDA e : e.type \in {"start", "progress"})

\* C16: every counter event of a run carries the total fixed up front
\* (rename operations, none on this route, plus label operations), and
\* the progress events carry a current that never decreases and never
\* exceeds the total.
C16_ProgressCounter ==
  app.pc = "page" =>
    \A r \in 1..Len(app.reqs) :
      LET evs == CounterEvents(app.reqs[r])
          total == app.reqs[r].status.entryCount
      IN  /\ \A k \in 1..Len(evs) : Field(evs[k], "total") = <<total>>
          /\ \A k \in 1..Len(evs) :
               evs[k].type = "progress" =>
                 /\ Field(evs[k], "current") # <<>>
                 /\ evs[k].current <= total
          /\ \A k, l \in 1..Len(evs) :
               (k < l /\ evs[k].type = "progress" /\ evs[l].type = "progress")
                 => evs[k].current <= evs[l].current

\* The workflow state the page shows: the 'syncing' step is Applying, the
\* 'complete' step is Complete, the 'preview' step is Failed with an error
\* message and Preview without.
Phase(a) ==
  IF a.step = "syncing" THEN "Applying"
  ELSE IF a.step = "complete" THEN "Complete"
  ELSE IF a.error THEN "Failed" ELSE "Preview"

\* C17: Applying is entered only from Preview, Complete only from Applying
\* and only with results free of errors, and Applying is left only for
\* Complete or Failed.
C17_Workflow ==
  [][app.pc = "page" =>
       /\ (Phase(app') = "Applying" /\ Phase(app) # "Applying")
            => Phase(app) = "Preview"
       /\ (Phase(app') = "Complete" /\ Phase(app) # "Complete")
            => /\ Phase(app) = "Applying"
               /\ app'.results # <<>> /\ ~app'.results[1].labels.error
       /\ (Phase(app) = "Applying" /\ Phase(app') # "Applying")
            => Phase(app') \in {"Complete", "Failed"}]_vars

\* A big-endian ROM long enough to be hashed.
IsCanonical(x) == Len(x) >= A3D_HASH_SIZE /\ Subarray(x, 0, 4) = Z64_MAGIC

\* C18: the id of a big-endian ROM, of its byte-swapped and of its
\* word-swapped encoding are the same, and it is the id of the ROM's
\* first A3D_HASH_SIZE bytes alone.
C18_ByteOrderIndependent ==
  (rom.pc = "id" /\ IsCanonical(rom.data)) =>
    /\ rom.res.err = ""
    /\ computeA3DId(Pairwise(rom.data)).id = rom.res.id
    /\ computeA3DId(Wordwise(rom.data)).id = rom.res.id
    /\ computeA3DId(Subarray(rom.data, 0, A3D_HASH_SIZE)).id = rom.res.id

\* C18 witness: an id computed for a big-endian ROM that has bytes behind
\* the hashed prefix and differs from both of its swapped encodings.
C18_Witness ==
  /\ rom.pc = "id" /\ IsCanonical(rom.data)
  /\ Len(rom.data) > A3D_HASH_SIZE
  /\ Pairwise(rom.data) # rom.data /\ Wordwise(rom.data) # rom.data
  /\ Subarray(rom.data, 4, A3D_HASH_SIZE) # Subarray(Pairwise(rom.data), 4, A3D_HASH_SIZE)
  /\ Len(rom.res.id) = 8

\* C19: a file shorter than A3D_HASH_SIZE bytes is refused and gets no
\* id; any file of at least that many bytes gets an id of eight hex
\* digits, whatever its first four bytes are.
C19_LengthDecides ==
  rom.pc = "id" =>
    IF Len(rom.data) < A3D_HASH_SIZE
    THEN rom.res.err = "ROM file too small" /\ rom.res.id = <<>>
    ELSE /\ rom.res.err = ""
         /\ Len(rom.res.id) = 8
         /\ \A k \in 1..8 : rom.res.id[k] \in 0..15

\* C19 witness: a file that starts with the big-endian signature and is
\* still refused for its length.
C19_Witness ==
  /\ rom.pc = "id"
  /\ Len(rom.data) >= 4 /\ Len(rom.data) < A3D_HASH_SIZE
  /\ Subarray(rom.data, 0, 4) = Z64_MAGIC
  /\ rom.res.err # ""

\* CRC-32/ISO-HDLC bit by bit: the register starts at 0xFFFFFFFF, takes
\* each byte into its low bits, is shifted right eight times with the
\* polynomial 0xEDB88320 folded in whenever a 1 falls out, and is
\* inverted at the end.
RefShift(reg) ==
  IF reg.lo % 2 = 1 THEN ToUint32(Xor32(Shr1(reg), U32(60856, 33568))) ELSE Shr1(reg)

RECURSIVE RefShifts(_, _)
RefShifts(reg, times) ==
  IF times = 0 THEN reg
  ELSE Only({RefShifts(r, times - 1) : r \in {RefShift(reg)}})

RECURSIVE RefRegister(_, _)
RefRegister(data, n) ==
  IF n = 0 THEN U32(65535, 65535)
  ELSE Only({RefShifts(ToUint32(Xor32(r, U32(0, data[n]))), 8) :
               r \in {RefRegister(data, n - 1)}})

Crc32Reference(data) ==
  ToUint32(Xor32(RefRegister(data, Len(data)), U32(65535, 65535)))

\* C20: the table-driven checksum is the bitwise CRC-32/ISO-HDLC of the
\* bytes, as an unsigned number below 2^32.
C20_TableEqualsBitwise ==
  rom.pc = "crc" =>
    /\ rom.res = Crc32Reference(rom.data)
    /\ rom.res.hi \in 0..65535 /\ rom.res.lo \in 0..65535

\* C20 witness: a checksum of several bytes whose top bit is set.
C20_Witness ==
  /\ rom.pc = "crc"
  /\ Len(rom.data) >= 2
  /\ rom.res.hi >= 32768

\* C21: a finished copy of a file that has bytes has made its first
\* callback at 0%, its last at 100% with all bytes written, exactly one of
\* each, and the callbacks in between are at least throttleMs apart.
C21_ProgressEnds ==
  (run.pc = "copied" /\ run.kind = "transfer" /\ Len(run.src) > 0) =>
    LET calls == run.calls
        n == Len(calls)
    IN  /\ n >= 2
        /\ calls[1].bytesWritten = 0 /\ calls[1].percentage = 0
        /\ calls[n].percentage = 100 /\ calls[n].bytesWritten = calls[n].totalBytes
        /\ \A k \in 2..(n - 1) : calls[k].bytesWritten > 0
        /\ \A k \in 2..(n - 2) : calls[k + 1].at - calls[k].at >= run.throttleMs

\* C22: a finished copy of a zero-byte file has left a zero-byte
\* destination and made exactly one callback, at 100%.
C22_EmptyFile ==
  (run.pc = "copied" /\ run.kind = "transfer" /\ Len(run.src) = 0) =>
    /\ run.res = "ok"
    /\ file = <<>>
    /\ Len(run.calls) = 1
    /\ run.calls[1].percentage = 100
    /\ run.calls[1].bytesWritten = run.calls[1].totalBytes

\* C22 witness: a zero-byte file has been copied over a card's file.
C22_Witness ==
  /\ run.pc = "copied" /\ run.kind = "transfer"
  /\ Len(run.src) = 0 /\ run.calls # <<>>

\* C23: the buffer createEmptyLabelsDb returns is DATA_START bytes long,
\* passes verifyHeader, and holds the fill value in every byte behind the
\* header.
C23_CreateEmpty ==
  (hist.origin = "empty" /\ hist.adds = 0 /\ ~hist.updated) =>
    /\ Len(file) = DATA_START
    /\ verifyHeader(file) = ""
    /\ \A off \in HEADER_SIZE..(DATA_START - 1) : ByteAt(file, off) = PADDING_FILL

\* C23 witness: a file as createEmptyLabelsDb made it, its table region
\* not empty.
C23_Witness ==
  /\ hist.origin = "empty" /\ hist.adds = 0 /\ ~hist.updated
  /\ op = NoOp
  /\ DATA_START > HEADER_SIZE
  /\ Len(file) >= HEADER_SIZE

\* C24: a conversion swaps bytes 0 and 2 of every pixel and keeps bytes 1
\* and 3, converting to display order and back gives the buffer again, and
\* a buffer whose length is not a multiple of 4 is rejected with
\* InvalidLength.
C24_ColorCodec ==
  /\ (run.pc \in {"display", "back"} /\ Len(run.x) % BYTES_PER_PIXEL = 0) =>
       /\ run.res = "ok"
       /\ Len(run.cur) = Len(run.x)
  /\ (run.pc = "display" /\ Len(run.x) % BYTES_PER_PIXEL = 0) =>
       \A k \in 1..Len(run.x) :
         run.cur[k] = run.x[CASE (k - 1) % 4 = 0 -> k + 2
                              [] (k - 1) % 4 = 2 -> k - 2
                              [] OTHER -> k]
  /\ (run.pc = "back" /\ Len(run.x) % BYTES_PER_PIXEL = 0) => run.cur = run.x
  /\ (run.pc \in {"display", "back"} /\ Len(run.x) % BYTES_PER_PIXEL # 0) =>
       run.res = "InvalidLength"

\* C24, amended: the byte swap and the round trip for buffers of whole
\* pixels; a buffer of any other length is converted as well, to a buffer
\* of the same length, and nothing is rejected.
C24_RoundTrip ==
  run.pc \in {"display", "back"} =>
    /\ run.res = "ok"
    /\ Len(run.cur) = Len(run.x)
    /\ (run.pc = "display" /\ Len(run.x) % BYTES_PER_PIXEL = 0) =>
         \A k \in 1..Len(run.x) :
           run.cur[k] = run.x[CASE (k - 1) % 4 = 0 -> k + 2
                                [] (k - 1) % 4 = 2 -> k - 2
                                [] OTHER -> k]
    /\ (run.pc = "back" /\ Len(run.x) % BYTES_PER_PIXEL = 0) => run.cur = run.x

C24_Witness ==
  /\ run.pc = "back"
  /\ Len(run.x) = 2 * BYTES_PER_PIXEL
  /\ run.x[1] # run.x[3]
  /\ run.x[5] # run.x[7]
  /\ run.cur = run.x

\* C25: after an export has completed, every cart id with a local label
\* picture is held by the card's labels.db with that picture, whether or
\* not the local index lists the id.
C25_StagedLabelsExported ==
  (run.pc = "done" /\ run.kind = "export" /\ run.res = "ok") =>
    \A id \in CartIds :
      (run.local[id].has /\ run.local[id].png \in Images) =>
        /\ getLabelImage(file, id).found
        /\ getLabelImage(file, id).rgba = run.local[id].png

\* C25, the case of an id the card held before the run and the local index
\* does not list.
C25_UnlistedCardEntry ==
  (run.pc = "done" /\ run.kind = "export" /\ run.res = "ok") =>
    \A id \in CartIds :
      ( /\ run.local[id].has /\ run.local[id].png \in Images
        /\ getLabelImage(run.pre, id).found
        /\ \A k \in 1..Len(run.index) : run.index[k] # id ) =>
        /\ getLabelImage(file, id).found
        /\ getLabelImage(file, id).rgba = run.local[id].png

\* One call run alone on data: the result and the bytes it leaves.
CallAlone(data, c) ==
  IF c.name = "update" THEN updateLabelImage(data, c.id, c.img)
  ELSE addCartridge(data, c.id, c.img)

\* The file after first and then second have run one after the other, both
\* with success; <<>> when one of them fails.
InTurn(data, first, second) ==
  LET a == CallAlone(data, first)
      b == CallAlone(a.out, second)
  IN  IF a.res = "ok" /\ b.res = "ok" THEN b.out ELSE <<>>

\* C26: when two calls on the same file have both returned, the file holds
\* the effect of each: it is what the two calls leave when run one after
\* the other, in one of the two orders.
C26_BothTakeEffect ==
  (run.pc = "race" /\ run.procs[1].pc = "done" /\ run.procs[2].pc = "done") =>
    \/ file = InTurn(run.pre, run.procs[1], run.procs[2])
    \/ file = InTurn(run.pre, run.procs[2], run.procs[1])

\* C27: after a successful addEntry of any 32-bit id, the fill pattern and
\* its predecessor included, parse lists the id, getImage returns its
\* picture, and the length is dataSectionStart + entryCount * slotSize.
C27_AddedIdVisible ==
  (op.kind = "core" /\ op.name = "add") =>
    /\ CorePresent(file, op.id)
    /\ getImageByCartId(file, op.id).found
    /\ getImageByCartId(file, op.id).rgba = op.img
    /\ Len(file) = DATA_START + Len(CoreEntries(file)) * IMAGE_SLOT_SIZE

\* A valid container: accepted header, a table of strictly ascending ids
\* followed by fill bytes up to the data section, one slot per id.
ValidContainer(buf) ==
  /\ parseLabelsDbCore(buf).err = ""
  /\ LET entries == CoreEntries(buf)
     IN  /\ Len(buf) = DATA_START + Len(entries) * IMAGE_SLOT_SIZE
         /\ \A i, j \in 1..Len(entries) : i < j => Gt(entries[j].cartId, entries[i].cartId)
         /\ \A off \in (ID_TABLE_START + 4 * Len(entries))..(DATA_START - 1) :
              ByteAt(buf, off) = PADDING_FILL

C29_ProgressMonotone_AnyRun ==
  (games.pc # "none" /\ games.kind = "progress") =>
    /\ \A k \in 1..Len(games.calls) :
         games.calls[k].overallBytesWritten <= games.calls[k].overallTotalBytes
    /\ \A k \in 1..(Len(games.calls) - 1) :
         games.calls[k + 1].overallBytesWritten >= games.calls[k].overallBytesWritten

\* C29, amended: the value never exceeds overallTotalBytes, and it does not
\* decrease from one callback to the next within a folder or after a folder
\* that was copied; after a folder that failed it restarts from the bytes
\* of the folders copied so far.
C29_ProgressMonotone ==
  (games.pc # "none" /\ games.kind = "progress") =>
    /\ \A k \in 1..Len(games.calls) :
         games.calls[k].overallBytesWritten <= games.calls[k].overallTotalBytes
    /\ \A k \in 1..(Len(games.calls) - 1) :
         \/ games.calls[k + 1].overallBytesWritten >= games.calls[k].overallBytesWritten
         \/ /\ games.calls[k].currentFile # games.calls[k + 1].currentFile
            /\ games.calls[k].currentFile \in games.failed
            /\ games.calls[k + 1].overallBytesWritten
                 >= SumSizes([j \in 1..(games.calls[k + 1].currentFile - 1) |->
                                IF j \in games.synced THEN games.sizes[j] ELSE 0])

C29_Witness ==
  /\ games.pc = "returned" /\ games.kind = "progress"
  /\ games.failed = {1} /\ games.synced = {2}
  /\ \E k \in 1..(Len(games.calls) - 1) :
       /\ games.calls[k].currentFile = 1
       /\ games.calls[k].overallBytesWritten > 0
       /\ games.calls[k + 1].currentFile = 2
       /\ games.calls[k + 1].overallBytesWritten < games.calls[k].overallBytesWritten
  /\ games.calls[Len(games.calls)].overallBytesWritten = games.sizes[2]

\* The positions of the terminal events in a stream.
Terminals(log) == {k \in 1..Len(log) : log[k].type \in {"complete", "error"}}

\* C30: a request that has passed validation has no terminal event while
\* its stream is open, and when the stream is closed it has exactly one,
\* as its last event, so no progress event follows it; a complete event
\* carries labels.success only when the export ended without error.
C30_OneTerminalEvent ==
  \A r \in 1..Len(app.reqs) :
    LET req == app.reqs[r]
    IN  /\ req.pc = "export" => Terminals(req.log) = {}
        /\ req.pc = "ended" => Terminals(req.log) = {Len(req.log)}
        /\ \A k \in 1..Len(req.log) :
             (req.log[k].type = "complete" /\ req.log[k].results.labels.success)
               => req.exported = "ok"

C30_Witness ==
  \E r, q \in 1..Len(app.reqs) :
    /\ app.reqs[r].pc = "ended" /\ app.reqs[r].exported = "ok"
    /\ Len(app.reqs[r].log) = MaxProgress + 2
    /\ app.reqs[r].log[Len(app.reqs[r].log)].results.labels.success
    /\ app.reqs[q].pc = "ended" /\ app.reqs[q].exported = "failed"
    /\ \E k \in 1..Len(app.reqs[q].log) : app.reqs[q].log[k].type = "progress"
    /\ ~app.reqs[q].log[Len(app.reqs[q].log)].results.labels.success

====
